---------------------------- MODULE Spec2Model ----------------------------
(***************************************************************************)
(* A model of the media organizer:                                         *)
(*   - AppConfig.format_episode_name / format_movie_name    (config.py)    *)
(*   - AppConfig.from_env                                    (config.py)    *)
(*   - MediaRenamer.generate_new_name / rename_file          (renamer.py)  *)
(*   - MediaScanner.scan_directory                           (scanner.py)  *)
(*   - MetadataManager and the MP4 and MKV editors           (metadata.py) *)
(*   - the main window, its workers and its file table       (gui.py)      *)
(*                                                                         *)
(* Text is modelled as sequences of one-character strings, a path as the   *)
(* sequence of its components (pathlib's `parts` below the root), and the  *)
(* disk as a set of directories plus a map from file paths to contents.    *)
(***************************************************************************)
EXTENDS Integers, Sequences, FiniteSets, TLC

VARIABLES
    fs,          \* the disk: [dirs: set of paths, files: path -> content]
    disk0,       \* the disk as it was before the first call
    renamer,     \* the MediaRenamer object: _title, _year, _include_year, config padding
    last,        \* the most recent rename_file call: arguments, locals, result
    ncalls,      \* number of rename_file calls issued by the single caller
    nameCall,    \* the most recent generate_new_name call: arguments and result
    media_files, \* the MediaFile objects handed to the worker (path, original_name)
    worker,      \* the RenameWorker: its fields, loop position and current_episode
    calls,       \* the rename_file calls the worker has made, in order
    progress,    \* the progress signals the worker has emitted, in order
    media_extensions, \* MediaScanner: the extension set of its configuration
    scanned_files, \* MediaScanner._scanned_files
    scanCall,    \* the most recent scan_directory call: arguments, walk, result
    nscans,      \* number of scan_directory calls made on the scanner
    mdCall,      \* the most recent MetadataManager call: arguments, editor calls, result
    tags,        \* the tags stored in the MPEG-4 file: key -> list of values
    tags0,       \* the tags of the file before the first write
    mp4Write,    \* the most recent MP4Editor.write call
    mp4Read,     \* the most recent MP4Editor.read call
    nwrites,     \* number of MP4Editor.write calls made
    mkvCall,     \* the most recent MKVEditor.write call and the tool runs it made
    environ,     \* os.environ: MEDIA_ORGANIZER_EPISODE_PADDING
    environ_extensions,  \* os.environ: MEDIA_ORGANIZER_EXTENSIONS
    config,      \* the AppConfig of the application (None before it is loaded)
    window,      \* the main window: padding selector, sequence box, inputs
    nclicks,     \* number of rename clicks handled
    gui,         \* MediaOrganizerWindow: its fields, toolbar, inputs and file table
    threads,     \* the worker threads started so far (QThread objects), in order
    queue        \* the event queue of the GUI thread: signals posted by workers

renameVars ==
    <<fs, disk0, renamer, last, ncalls, nameCall, media_files, worker, calls, progress>>

scanVars == <<media_extensions, scanned_files, scanCall, nscans>>

\* the variables of the components other than the renamer and its worker
mp4Vars == <<tags, tags0, mp4Write, mp4Read, nwrites>>

guiVars == <<gui, threads, queue>>

appVars == <<environ, environ_extensions, config, window, nclicks, guiVars>>

nonRenameVars == <<scanVars, mdCall, mp4Vars, mkvCall, appVars>>

vars == <<renameVars, nonRenameVars>>

\* the variables the window and its workers leave alone
besideWindow ==
    <<disk0, renamer, last, ncalls, nameCall, worker, calls, progress,
      media_extensions, scanCall, nscans, mdCall, mp4Vars, mkvCall,
      environ, environ_extensions, window, nclicks>>

---------------------------------------------------------------------------
(* Bounds of the model *)

\* rename_file calls issued in one behaviour of Spec
MaxCalls == 2
\* files in one rename batch
MaxBatch == 3
\* seasons / episodes tried by the naming functions have up to this many digits + 1
MaxDigits == 3
\* files in a scanned tree
MaxScanFiles == 4
\* scan_directory calls made on one scanner
MaxScans == 2
\* MP4Editor.write calls made on one file
MaxWrites == 2
\* rename clicks that start a batch in one run of the application
MaxClicks == 2
\* worker threads the user starts in one run of the window
MaxWorkers == 3
\* media files in the directory the window shows
MaxRows == 2

---------------------------------------------------------------------------
(* Optional values: None is the empty sequence, a value x is <<x>> *)

None == <<>>
Some(x) == <<x>>

---------------------------------------------------------------------------
(* Text *)

Chr(n) == <<"0", "1", "2", "3", "4", "5", "6", "7", "8", "9">>[n + 1]

IsDigit(c) == c \in {"0", "1", "2", "3", "4", "5", "6", "7", "8", "9"}

\* str(n) for n >= 0: the decimal digits, most significant first
RECURSIVE Digits(_)
Digits(n) == IF n < 10 THEN <<Chr(n)>> ELSE Digits(n \div 10) \o <<Chr(n % 10)>>

RECURSIVE Zeros(_)
Zeros(k) == IF k <= 0 THEN <<>> ELSE <<"0">> \o Zeros(k - 1)

\* a zero-padding that cuts the number to the width: what "{:0wd}" does NOT do
ZeroPadTruncating(n, w) ==
    LET d == Digits(n)
    IN  IF Len(d) >= w THEN SubSeq(d, Len(d) - w + 1, Len(d))
        ELSE Zeros(w - Len(d)) \o d

\* format(n, "0wd") for n >= 0: pad on the left with zeros to at least w characters
ZeroPad(n, w) == LET d == Digits(n) IN Zeros(w - Len(d)) \o d

DigitValue(c) == CHOOSE d \in 0..9 : Chr(d) = c

RECURSIVE DecimalValue(_)
DecimalValue(f) ==
    IF f = <<>> THEN 0
    ELSE 10 * DecimalValue(SubSeq(f, 1, Len(f) - 1)) + DigitValue(f[Len(f)])

\* str(n) for any integer n
Str(n) == IF n < 0 THEN <<"-">> \o Digits(-n) ELSE Digits(n)

\* s[:k]
Prefix(s, k) == SubSeq(s, 1, IF Len(s) < k THEN Len(s) ELSE k)

\* s.strip(), for the one whitespace character of the model
RECURSIVE Strip(_)
Strip(s) ==
    IF s = <<>> THEN s
    ELSE IF Head(s) = " " THEN Strip(Tail(s))
    ELSE IF s[Len(s)] = " " THEN Strip(SubSeq(s, 1, Len(s) - 1))
    ELSE s

\* the digits of a numeral body, or <<"?">> if it is not one: digits, with single
\* underscores allowed between two digits
NumeralDigits(b) ==
    IF /\ b # <<>>
       /\ \A i \in 1..Len(b) :
              \/ IsDigit(b[i])
              \/ /\ b[i] = "_"
                 /\ 1 < i /\ i < Len(b)
                 /\ IsDigit(b[i - 1]) /\ IsDigit(b[i + 1])
    THEN SelectSeq(b, IsDigit)
    ELSE <<"?">>

\* int(s) of a str: Some(n), or None where Python raises ValueError.  Surrounding
\* whitespace is ignored and one sign may precede the digits.
PyInt(s) ==
    LET t == Strip(s)
        signed == t # <<>> /\ t[1] \in {"+", "-"}
        d == NumeralDigits(IF signed THEN Tail(t) ELSE t)
    IN  IF d = <<"?">> THEN None
        ELSE IF signed /\ t[1] = "-" THEN <<0 - DecimalValue(d)>>
        ELSE <<DecimalValue(d)>>

---------------------------------------------------------------------------
(* Paths (pathlib.PurePosixPath) *)

RECURSIVE SplitAcc(_, _, _)
SplitAcc(s, cur, acc) ==
    IF s = <<>> THEN Append(acc, cur)
    ELSE IF Head(s) = "/" THEN SplitAcc(Tail(s), <<>>, Append(acc, cur))
    ELSE SplitAcc(Tail(s), Append(cur, Head(s)), acc)

\* the components of a relative path string: empty and "." components are dropped,
\* ".." is kept (pathlib does not collapse it)
ParseParts(s) ==
    SelectSeq(SplitAcc(s, <<>>, <<>>), LAMBDA c : c # <<>> /\ c # <<".">>)

\* directory / name: an absolute right operand replaces the left one
JoinPath(directory, name) ==
    IF name # <<>> /\ name[1] = "/" THEN ParseParts(name)
    ELSE directory \o ParseParts(name)

\* path.name
PathName(p) == IF p = <<>> THEN <<>> ELSE p[Len(p)]

\* path.parent (lexical; the root is its own parent)
PathParent(p) == IF p = <<>> THEN <<>> ELSE SubSeq(p, 1, Len(p) - 1)

LastDot(name) ==
    LET dots == {j \in 1..Len(name) : name[j] = "."}
    IN  IF dots = {} THEN 0 ELSE CHOOSE j \in dots : \A k \in dots : k <= j

\* path.suffix: from the last dot of the name, unless that dot is the first or
\* the last character of the name
PathSuffix(p) ==
    LET name == PathName(p)
        j == LastDot(name)
    IN  IF 1 < j /\ j < Len(name) THEN SubSeq(name, j, Len(name)) ELSE <<>>

\* path.stem: the name without its suffix
PathStem(p) == SubSeq(PathName(p), 1, Len(PathName(p)) - Len(PathSuffix(p)))

---------------------------------------------------------------------------
(* The disk, as pathlib and os see it (POSIX) *)

Root == <<>>
DotDot == <<".", ".">>

\* walk the components from a directory; <<canonical path>>, or <<>> when a
\* component that must be searched is not a directory (ENOENT / ENOTDIR)
RECURSIVE Walk(_, _, _)
Walk(disk, cur, rest) ==
    IF rest = <<>> THEN <<cur>>
    ELSE IF cur \notin disk.dirs THEN <<>>
    ELSE IF Head(rest) = DotDot THEN Walk(disk, PathParent(cur), Tail(rest))
    ELSE Walk(disk, Append(cur, Head(rest)), Tail(rest))

Resolve(disk, p) == Walk(disk, Root, p)

\* Path.exists(): stat succeeds; a missing or non-directory component gives False
PathExists(disk, p) ==
    LET r == Resolve(disk, p)
    IN  r # <<>> /\ (r[1] \in disk.dirs \/ r[1] \in DOMAIN disk.files)

OsOutcomes == {"ok", "EACCES", "EIO"}

\* os.rename(src, dst) for a source that is a regular file or missing.
\* env is what the operating system answers to a real move: "ok", a permission
\* error, or another error (disk full, cross-device, ...).  rename(2): a target
\* that is an existing file is replaced; when both names are the same file
\* nothing is done and the call succeeds; a failed rename changes nothing.
OsRename(disk, src, dst, env) ==
    LET s == Resolve(disk, src)
        d == Resolve(disk, dst)
    IN  IF s = <<>> \/ s[1] \notin DOMAIN disk.files
            THEN [exc |-> "OSError", disk |-> disk]
        ELSE IF d = <<>>
            THEN [exc |-> "OSError", disk |-> disk]
        ELSE IF d[1] = s[1]
            THEN [exc |-> "none", disk |-> disk]
        ELSE IF env = "EACCES"
            THEN [exc |-> "PermissionError", disk |-> disk]
        ELSE IF env = "EIO"
            THEN [exc |-> "OSError", disk |-> disk]
        ELSE IF d[1] \in disk.dirs
            THEN [exc |-> "OSError", disk |-> disk]
        ELSE [exc |-> "none",
              disk |-> [dirs |-> disk.dirs,
                        files |-> [q \in (DOMAIN disk.files \ {s[1]}) \cup {d[1]} |->
                                     IF q = d[1] THEN disk.files[s[1]]
                                     ELSE disk.files[q]]]]

---------------------------------------------------------------------------
(* AppConfig: the naming functions *)

\* the smallest year format_movie_name renders
MinYear == 1000

\* "{title} S{season:02d} EP{episode:0{padding}d}"
format_episode_name(episode_padding, title, season, episode) ==
    title \o <<" ", "S">> \o ZeroPad(season, 2)
          \o <<" ", "E", "P">> \o ZeroPad(episode, episode_padding)

\* Python truth value of an Optional[int]
Truthy(year) == year # None /\ year[1] # 0

\* a year test that leaves the boundary year out
YearRenderedStrict(year) == Truthy(year) /\ year[1] > MinYear

\* `if year and year >= 1000`
YearRendered(year) == Truthy(year) /\ year[1] >= MinYear

format_movie_name(title, year) ==
    IF YearRendered(year)
    THEN title \o <<" ", "(">> \o Digits(year[1]) \o <<")">>
    ELSE title

---------------------------------------------------------------------------
(* MediaRenamer *)

\* MediaRenamer(title, config, year, include_year_in_filename)
MediaRenamer(title, episode_padding, year, include_year) ==
    [title |-> title, episode_padding |-> episode_padding,
     year |-> year, include_year |-> include_year]

generate_episode_name(r, season, episode) ==
    format_episode_name(r.episode_padding, r.title, season, episode)

\* the branch of generate_new_name that picks the name without its extension
NameStem(r, season, episode, episodic) ==
    IF episodic THEN generate_episode_name(r, season, episode)
    ELSE IF r.include_year THEN format_movie_name(r.title, r.year)
    ELSE r.title

generate_new_name(r, file_path, season, episode, episodic) ==
    LET directory == PathParent(file_path)
        extension == PathSuffix(file_path)
        episode_name == NameStem(r, season, episode, episodic)
    IN  [directory |-> directory, new_name |-> episode_name \o extension]

\* a collision test with the comparison of the two paths inverted
TargetBlockedSamePath(disk, new_path, original_path) ==
    PathExists(disk, new_path) /\ new_path = original_path

\* a collision test that never blocks
TargetBlockedNever(disk, new_path, original_path) == FALSE

\* `if new_path.exists() and new_path != original_path`
TargetBlocked(disk, new_path, original_path) ==
    PathExists(disk, new_path) /\ new_path # original_path

\* an except clause for PermissionError only
HandlesPermissionOnly(exc) == exc = "PermissionError"

\* the except clauses of rename_file: PermissionError, then OSError
Handles(exc) == exc \in {"PermissionError", "OSError"}

ErrorFor(exc) ==
    IF exc = "PermissionError" THEN "Permission denied" ELSE "OS error during rename"

RenameResult(success, original_path, new_path, error) ==
    [success |-> success, original_path |-> original_path,
     new_path |-> new_path, error |-> error]

\* rename_file: the result, whether an exception escaped, the os.rename calls
\* made and what os.rename raised, the local new_path (None before it is
\* computed) and the disk afterwards
rename_file(disk, r, file_path, season, episode, episodic, env) ==
    LET original_path == file_path
    IN  IF ~PathExists(disk, original_path)
        THEN [result |-> RenameResult(FALSE, original_path, None,
                                      Some("File does not exist")),
              raised |-> FALSE, moves |-> 0, exc |-> "not called",
              target |-> None, disk |-> disk]
        ELSE
          LET g == generate_new_name(r, file_path, season, episode, episodic)
              new_path == JoinPath(g.directory, g.new_name)
          IN  IF TargetBlocked(disk, new_path, original_path)
              THEN [result |-> RenameResult(FALSE, original_path, None,
                                            Some("Target file already exists")),
                    raised |-> FALSE, moves |-> 0, exc |-> "not called",
                    target |-> Some(new_path), disk |-> disk]
              ELSE
                LET o == OsRename(disk, original_path, new_path, env)
                IN  IF o.exc = "none"
                    THEN [result |-> RenameResult(TRUE, original_path,
                                                  Some(new_path), None),
                          raised |-> FALSE, moves |-> 1, exc |-> o.exc,
                          target |-> Some(new_path), disk |-> o.disk]
                    ELSE IF Handles(o.exc)
                    THEN [result |-> RenameResult(FALSE, original_path, None,
                                                  Some(ErrorFor(o.exc))),
                          raised |-> FALSE, moves |-> 1, exc |-> o.exc,
                          target |-> Some(new_path), disk |-> o.disk]
                    ELSE [result |-> RenameResult(FALSE, original_path, None, None),
                          raised |-> TRUE, moves |-> 1, exc |-> o.exc,
                          target |-> Some(new_path), disk |-> o.disk]

---------------------------------------------------------------------------
(* Input sets *)

TitleT == <<"T">>
TitleEmpty == <<>>
TitleSub == <<"s", "/", "T">>
TitleDotted == <<"T", ".", "x">>

DirS == <<"s">>
FileA == <<"a", ".", "m">>
FileB == <<"b">>
FileT == <<"T", ".", "m">>
FileZ == <<"z", ".", "m">>

\* the directories of every disk: the root and one subdirectory
Dirs0 == {Root, <<DirS>>}

\* the files an initial disk may hold; a file's content is its index here
Candidates == << <<FileA>>, <<FileB>>, <<FileT>> >>

DiskOf(S) ==
    [dirs |-> Dirs0,
     files |-> [p \in {Candidates[i] : i \in S} |->
                  CHOOSE i \in S : Candidates[i] = p]]

\* any directory contents: every non-empty choice of the candidate files
InitialDisks == {DiskOf(S) : S \in (SUBSET (1..Len(Candidates))) \ {{}}}

\* a path no disk holds
MissingPath == <<FileZ>>

\* the renamers of the single caller: a plain title, a title with a year, an
\* empty title, a title holding a path separator, a title holding a dot
CallerRenamers ==
    {MediaRenamer(TitleT, 3, None, FALSE),
     MediaRenamer(TitleT, 3, Some(2002), TRUE),
     MediaRenamer(TitleEmpty, 3, None, FALSE),
     MediaRenamer(TitleSub, 3, None, FALSE),
     MediaRenamer(TitleDotted, 2, None, FALSE)}

---------------------------------------------------------------------------
(* State *)

NoRenamer == MediaRenamer(TitleEmpty, 3, None, FALSE)

NoCall ==
    [called |-> FALSE, file_path |-> Root, season |-> 0, episode |-> 0,
     episodic |-> FALSE, before |-> [dirs |-> Dirs0, files |-> <<>>],
     result |-> RenameResult(FALSE, Root, None, None),
     raised |-> FALSE, moves |-> 0, exc |-> "not called", target |-> None]

NoNameCall ==
    [called |-> FALSE, renamer |-> NoRenamer, file_path |-> Root, season |-> 0,
     episode |-> 0, episodic |-> FALSE, directory |-> Root, new_name |-> <<>>]

IdleWorker ==
    [state |-> "idle", files |-> <<>>, renamer |-> NoRenamer, season |-> 0,
     episode |-> 0, episodic |-> FALSE, pos |-> 0, current_episode |-> 0]

\* AppConfig.episode_padding by default
DefaultPadding == 3

\* AppConfig.media_extensions by default
DefaultExtensions ==
    {<<".", "m", "p", "4">>, <<".", "m", "k", "v">>,
     <<".", "m", "4", "v">>, <<".", "a", "v", "i">>}

NoScanCall ==
    [called |-> FALSE, directory_path |-> Root, had_results |-> FALSE, tuples |-> <<>>, exc |-> "not called",
     raised |-> FALSE, result |-> <<>>]

NoMetadataCall ==
    [called |-> FALSE, op |-> "none", editors |-> <<>>, episode_padding |-> 3,
     file_path |-> Root, metadata |-> <<>>, env |-> <<>>, reads |-> <<>>,
     writes |-> <<>>, outcome |-> "none", raised |-> FALSE, result |-> <<>>]

\* models.MediaMetadata
MediaMetadata(title, season, episode, genre, year, collection) ==
    [title |-> title, season |-> season, episode |-> episode,
     genre |-> genre, year |-> year, collection |-> collection]

\* MediaMetadata(): every field at its default
EmptyMetadata == MediaMetadata(<<>>, 0, 0, <<>>, 0, <<>>)

\* the tag keys of an MPEG-4 file that the editor uses, and one it does not
KeyTitle == "\\xa9nam"
KeySeason == "tvsn"
KeyEpisode == "tves"
KeyGenre == "\\xa9gen"
KeyDate == "\\xa9day"
KeyOther == "desc"

TagKeys == {KeyTitle, KeySeason, KeyEpisode, KeyGenre, KeyDate, KeyOther}

\* a file without tags: every key absent (None); a present tag is Some(list)
NoTags == [k \in TagKeys |-> None]

NoMp4Write ==
    [called |-> FALSE, n |-> 0, metadata |-> EmptyMetadata, env |-> "none",
     before |-> NoTags, result |-> FALSE, raised |-> FALSE]

NoMp4Read ==
    [called |-> FALSE, env |-> "none", result |-> EmptyMetadata, raised |-> FALSE]

NoMkvCall ==
    [called |-> FALSE, file_path |-> Root, metadata |-> EmptyMetadata,
     env |-> [kind |-> "none", returncode |-> 0, exc |-> "none"], runs |-> <<>>,
     result |-> FALSE, raised |-> FALSE]

\* no main window yet
NoWindow ==
    [open |-> FALSE, padding_combo |-> 0, sequence_check |-> FALSE,
     padding_enabled |-> FALSE, title |-> <<>>, files |-> 0, selected |-> 0,
     buttons_enabled |-> FALSE, status |-> "none"]

\* the main window as __init__ and _setup_ui leave it: no directory, no worker,
\* the four toolbar actions disabled, movie mode, an empty sortable table
NoGui ==
    [current_dir |-> None, worker |-> 0,
     scan_action |-> FALSE, refresh_action |-> FALSE,
     rename_action |-> FALSE, metadata_action |-> FALSE,
     sequence_check |-> FALSE, title_input |-> <<>>,
     season_spin |-> 1, episode_spin |-> 1, padding_combo |-> 1,
     genre_combo |-> <<>>, year_spin |-> 2000,
     spins_enabled |-> FALSE,
     rows |-> <<>>, sorting_enabled |-> TRUE, sort_order |-> None,
     select_all |-> TRUE, status_bar |-> "Ready"]

\* no window, no worker thread, nothing posted
IdleGui ==
    /\ gui = NoGui
    /\ threads = <<>>
    /\ queue = <<>>

\* a scanner before its first scan
IdleScanner ==
    /\ media_extensions = DefaultExtensions
    /\ scanned_files = <<>>
    /\ scanCall = NoScanCall
    /\ nscans = 0

\* a metadata manager before its first call
IdleManager == mdCall = NoMetadataCall

\* the editors before their first call
IdleEditors ==
    /\ tags = NoTags
    /\ tags0 = NoTags
    /\ mp4Write = NoMp4Write
    /\ mp4Read = NoMp4Read
    /\ nwrites = 0
    /\ mkvCall = NoMkvCall

\* the application before it loads its configuration
IdleApp ==
    /\ environ = None
    /\ environ_extensions = None
    /\ config = None
    /\ window = NoWindow
    /\ nclicks = 0
    /\ IdleGui

\* the components other than the renamer, freshly constructed
IdleOthers == IdleScanner /\ IdleManager /\ IdleEditors /\ IdleApp

\* the renamer and its worker, before any call
IdleRename ==
    /\ renamer = NoRenamer
    /\ last = NoCall
    /\ ncalls = 0
    /\ nameCall = NoNameCall
    /\ media_files = <<>>
    /\ worker = IdleWorker
    /\ calls = <<>>
    /\ progress = <<>>

Init ==
    /\ fs \in InitialDisks
    /\ disk0 = fs
    /\ renamer = NoRenamer
    /\ last = NoCall
    /\ ncalls = 0
    /\ nameCall = NoNameCall
    /\ media_files = <<>>
    /\ worker = IdleWorker
    /\ calls = <<>>
    /\ progress = <<>>
    /\ IdleOthers

---------------------------------------------------------------------------
(* A single caller issuing rename_file calls, one at a time *)

\* renamer.rename_file(p, 1, 1, episodic) on a renamer of the caller's
RenameFile ==
    /\ ncalls < MaxCalls
    /\ \E r \in CallerRenamers, p \in DOMAIN fs.files \cup {MissingPath},
          episodic \in BOOLEAN, env \in OsOutcomes :
         \E out \in {rename_file(fs, r, p, 1, 1, episodic, env)} :
             /\ renamer' = r
             /\ fs' = out.disk
             /\ last' = [called |-> TRUE, file_path |-> p, season |-> 1,
                         episode |-> 1, episodic |-> episodic,
                         before |-> fs, result |-> out.result,
                         raised |-> out.raised, moves |-> out.moves,
                         exc |-> out.exc, target |-> out.target]
    /\ ncalls' = ncalls + 1
    /\ UNCHANGED <<disk0, nameCall, media_files, worker, calls, progress, nonRenameVars>>

Next == RenameFile

Spec == Init /\ [][Next]_vars

---------------------------------------------------------------------------
(* The naming functions on their own: one generate_new_name call *)

RECURSIVE Pow10(_)
Pow10(k) == IF k = 0 THEN 1 ELSE 10 * Pow10(k - 1)

\* 0, 1, 9, 10, 99, 100, ...: the numbers around each digit count
Numbers == UNION {{Pow10(k) - 1, Pow10(k)} : k \in 0..MaxDigits}

\* the episode paddings a configuration may hold
Paddings == {2, 3}

NameYears == {None, Some(0), Some(MinYear - 1), Some(MinYear), Some(2002)}

NameRenamers ==
    {MediaRenamer(t, pad, y, incl) :
        t \in {TitleT, TitleEmpty, TitleSub}, pad \in Paddings,
        y \in NameYears, incl \in BOOLEAN}

NameFiles == {<<FileA>>, <<FileB>>, <<DirS, FileA>>}

InitName ==
    /\ fs = DiskOf({1, 2})
    /\ disk0 = fs
    /\ renamer = NoRenamer
    /\ last = NoCall
    /\ ncalls = 0
    /\ nameCall = NoNameCall
    /\ media_files = <<>>
    /\ worker = IdleWorker
    /\ calls = <<>>
    /\ progress = <<>>
    /\ IdleOthers

\* renamer.generate_new_name(file_path, season, episode, episodic)
GenerateNewName ==
    /\ ~nameCall.called
    /\ \E r \in NameRenamers, f \in NameFiles, season \in Numbers,
          episode \in Numbers, episodic \in BOOLEAN :
         \E g \in {generate_new_name(r, f, season, episode, episodic)} :
             nameCall' = [called |-> TRUE, renamer |-> r, file_path |-> f,
                          season |-> season, episode |-> episode,
                          episodic |-> episodic, directory |-> g.directory,
                          new_name |-> g.new_name]
    /\ UNCHANGED <<fs, disk0, renamer, last, ncalls, media_files, worker, calls, progress, nonRenameVars>>

NextName == GenerateNewName

SpecName == InitName /\ [][NextName]_vars

---------------------------------------------------------------------------
(* RenameWorker: one rename batch over the MediaFile entries *)

BatchLetters == <<"a", "b", "c", "d", "e", "f">>
BatchName(i) == <<BatchLetters[i], ".", "m">>

BatchDisk(n) ==
    [dirs |-> Dirs0,
     files |-> [p \in {<<BatchName(i)>> : i \in 1..n} |->
                  CHOOSE i \in 1..n : <<BatchName(i)>> = p]]

\* MediaFile.from_path
MediaFile_from_path(path) ==
    [path |-> path, original_name |-> PathName(path),
     metadata |-> EmptyMetadata, selected |-> TRUE]

BatchRenamers ==
    {MediaRenamer(TitleT, 3, None, FALSE), MediaRenamer(TitleSub, 2, None, FALSE)}

BatchEpisodes == {1, 5}

\* the rows of a set, in ascending order, each with its MediaFile (by reference:
\* the index of the entry in media_files)
RECURSIVE RowsOf(_)
RowsOf(rows) ==
    IF rows = {} THEN <<>>
    ELSE LET i == CHOOSE x \in rows : \A y \in rows : x <= y
         IN  <<[row |-> i, mf |-> i]>> \o RowsOf(rows \ {i})

InitBatch ==
    /\ \E n \in 1..MaxBatch :
         /\ fs = BatchDisk(n)
         /\ media_files = [i \in 1..n |-> MediaFile_from_path(<<BatchName(i)>>)]
    /\ disk0 = fs
    /\ renamer = NoRenamer
    /\ last = NoCall
    /\ ncalls = 0
    /\ nameCall = NoNameCall
    /\ worker = IdleWorker
    /\ calls = <<>>
    /\ progress = <<>>
    /\ IdleOthers

\* RenameWorker(files, renamer, season, episode, episodic), start(), and the
\* first statement of run(): current_episode = self._episode
StartRenameWorker ==
    /\ worker.state = "idle"
    /\ \E r \in BatchRenamers, episode \in BatchEpisodes, episodic \in BOOLEAN,
          rows \in (SUBSET (1..Len(media_files))) \ {{}} :
         worker' = [state |-> "running", files |-> RowsOf(rows), renamer |-> r,
                    season |-> 1, episode |-> episode, episodic |-> episodic,
                    pos |-> 1, current_episode |-> episode]
    /\ UNCHANGED <<fs, disk0, renamer, last, ncalls, nameCall, media_files,
                   calls, progress, nonRenameVars>>

\* an episode counter that advances after every call
NextEpisodeAlways(current_episode, success, episodic) ==
    IF episodic THEN current_episode + 1 ELSE current_episode

\* an episode counter that advances after a failed call
NextEpisodeAfterFailure(current_episode, success, episodic) ==
    IF ~success /\ episodic THEN current_episode + 1 ELSE current_episode

\* `if result.success: ... if self._episodic: current_episode += 1`
NextEpisode(current_episode, success, episodic) ==
    IF success /\ episodic THEN current_episode + 1 ELSE current_episode

\* the status emitted after the call
StatusOf(result) ==
    IF result.success THEN "Renamed" ELSE "Failed: " \o result.error[1]

\* one iteration of the loop of run(); run() never assigns media_file.path
RenameWorkerStep ==
    /\ worker.state = "running"
    /\ worker.pos <= Len(worker.files)
    /\ \E env \in OsOutcomes :
         LET item == worker.files[worker.pos]
             media_file == media_files[item.mf]
         IN  \E out \in {rename_file(fs, worker.renamer, media_file.path,
                                     worker.season, worker.current_episode,
                                     worker.episodic, env)} :
               /\ fs' = out.disk
               /\ calls' = Append(calls,
                                  [row |-> item.row, mf |-> item.mf,
                                   path |-> media_file.path,
                                   season |-> worker.season,
                                   episode |-> worker.current_episode,
                                   episodic |-> worker.episodic,
                                   result |-> out.result])
               /\ progress' = progress \o
                     <<[row |-> item.row, status |-> "Processing..."],
                       [row |-> item.row, status |-> StatusOf(out.result)]>>
               /\ worker' = [worker EXCEPT
                               !.pos = @ + 1,
                               !.current_episode =
                                   NextEpisode(@, out.result.success, worker.episodic)]
    /\ UNCHANGED <<disk0, renamer, last, ncalls, nameCall, media_files, nonRenameVars>>

\* the end of run(): self.finished.emit()
RenameWorkerFinish ==
    /\ worker.state = "running"
    /\ worker.pos > Len(worker.files)
    /\ worker' = [worker EXCEPT !.state = "finished"]
    /\ UNCHANGED <<fs, disk0, renamer, last, ncalls, nameCall, media_files,
                   calls, progress, nonRenameVars>>

NextBatch == StartRenameWorker \/ RenameWorkerStep \/ RenameWorkerFinish

SpecBatch == InitBatch /\ [][NextBatch]_vars

---------------------------------------------------------------------------
(* RenameWorker on a directory where an episode name is already taken *)

\* the name an earlier run gave to episode e of season 1: "T S01 EP00e.m"
TakenName(e) == format_episode_name(3, TitleT, 1, e) \o <<".", "m">>

TakenEpisodes == {1, 2, 6}

\* the batch files a.m, b.m, ... and the file that holds the episode name
TakenDisk(n, e) ==
    [dirs |-> Dirs0,
     files |-> [p \in DOMAIN BatchDisk(n).files \cup {<<TakenName(e)>>} |->
                  IF p \in DOMAIN BatchDisk(n).files THEN BatchDisk(n).files[p]
                  ELSE 0]]

\* the scanned list: the batch files, then (sorted last) the file with the
\* episode name; the user may leave any of them unchecked
InitStall ==
    /\ \E n \in 1..MaxBatch, e \in TakenEpisodes :
         /\ fs = TakenDisk(n, e)
         /\ media_files =
                [i \in 1..(n + 1) |->
                    MediaFile_from_path(IF i <= n THEN <<BatchName(i)>>
                                        ELSE <<TakenName(e)>>)]
    /\ disk0 = fs
    /\ renamer = NoRenamer
    /\ last = NoCall
    /\ ncalls = 0
    /\ nameCall = NoNameCall
    /\ worker = IdleWorker
    /\ calls = <<>>
    /\ progress = <<>>
    /\ IdleOthers

SpecStall == InitStall /\ [][NextBatch]_vars

---------------------------------------------------------------------------
(* MediaScanner *)

\* the characters of the model in code point order
Ascii ==
    <<" ", "(", ")", ".", "/",
      "0", "1", "2", "3", "4", "5", "6", "7", "8", "9",
      "A", "B", "C", "D", "E", "F", "G", "H", "I", "J", "K", "L", "M",
      "N", "O", "P", "Q", "R", "S", "T", "U", "V", "W", "X", "Y", "Z",
      "a", "b", "c", "d", "e", "f", "g", "h", "i", "j", "k", "l", "m",
      "n", "o", "p", "q", "r", "s", "t", "u", "v", "w", "x", "y", "z">>

CodePoint(c) == CHOOSE i \in 1..Len(Ascii) : Ascii[i] = c

\* str.lower() on one character and on a string
LowerChar(c) ==
    LET i == CodePoint(c)
    IN  IF CodePoint("A") <= i /\ i <= CodePoint("Z") THEN Ascii[i + 26] ELSE c

Lower(s) == [i \in 1..Len(s) |-> LowerChar(s[i])]

\* a <= b for Python strings: lexicographic by code point
RECURSIVE StrLeq(_, _)
StrLeq(a, b) ==
    IF a = <<>> THEN TRUE
    ELSE IF b = <<>> THEN FALSE
    ELSE IF Head(a) = Head(b) THEN StrLeq(Tail(a), Tail(b))
    ELSE CodePoint(Head(a)) < CodePoint(Head(b))

\* key=lambda f: f.original_name.lower()
SortKey(f) == Lower(f.original_name)

\* list.sort(key=...): a stable sort, here by insertion from the left
RECURSIVE SortByName(_)
SortByName(files) ==
    IF files = <<>> THEN <<>>
    ELSE LET front == SortByName(SubSeq(files, 1, Len(files) - 1))
             x == files[Len(files)]
             k == Cardinality({i \in 1..Len(front) :
                                 StrLeq(SortKey(front[i]), SortKey(x))})
         IN  SubSeq(front, 1, k) \o <<x>> \o SubSeq(front, k + 1, Len(front))

\* Path.is_dir()
IsDir(disk, p) ==
    LET r == Resolve(disk, p) IN r # <<>> /\ r[1] \in disk.dirs

\* os.walk(top), top-down, links not followed.  env is what the operating
\* system does during the walk: the order in which it lists files (order) and
\* directories (dirOrder), the directories it cannot list (skipped: os.walk
\* ignores the error and yields nothing for them), and whether the generator
\* raises when asked for its (at + 1)-th tuple.
RECURSIVE WalkDirs(_, _, _)
RECURSIVE WalkChildren(_, _, _, _)
WalkDirs(disk, d, env) ==
    IF d \in env.skipped THEN <<>>
    ELSE <<d>> \o WalkChildren(disk, d, env.dirOrder, env)

WalkChildren(disk, d, rest, env) ==
    IF rest = <<>> THEN <<>>
    ELSE (IF Head(rest) \in disk.dirs /\ Head(rest) # Root
             /\ PathParent(Head(rest)) = d
          THEN WalkDirs(disk, Head(rest), env) ELSE <<>>)
         \o WalkChildren(disk, d, Tail(rest), env)

\* the non-directory names of directory d, in listing order
ListedFiles(disk, d, env) ==
    LET here == SelectSeq(env.order,
                          LAMBDA p : p \in DOMAIN disk.files /\ PathParent(p) = d)
    IN  [i \in 1..Len(here) |-> PathName(here[i])]

OsWalk(disk, top, env) ==
    LET visit == WalkDirs(disk, top, env)
        all == [i \in 1..Len(visit) |->
                  [root |-> visit[i], files |-> ListedFiles(disk, visit[i], env)]]
    IN  IF env.exc # "none" /\ env.at <= Len(all)
        THEN [tuples |-> SubSeq(all, 1, env.at), exc |-> env.exc]
        ELSE [tuples |-> all, exc |-> "none"]

\* a file test that compares the suffix as it is written
IsMediaExact(file_path, extensions) == PathSuffix(file_path) \in extensions

\* `if file_path.suffix.lower() in self.media_extensions`
IsMedia(file_path, extensions) == Lower(PathSuffix(file_path)) \in extensions

\* the inner loop of scan_directory over the files of one tuple
RECURSIVE ScanFiles(_, _, _, _)
ScanFiles(root, files, extensions, acc) ==
    IF files = <<>> THEN acc
    ELSE LET file_path == Append(root, Head(files))
         IN  ScanFiles(root, Tail(files), extensions,
                       IF IsMedia(file_path, extensions)
                       THEN Append(acc, MediaFile_from_path(file_path))
                       ELSE acc)

\* the outer loop of scan_directory over the tuples os.walk yields
RECURSIVE ScanTuples(_, _, _)
ScanTuples(tuples, extensions, acc) ==
    IF tuples = <<>> THEN acc
    ELSE ScanTuples(Tail(tuples), extensions,
                    ScanFiles(Head(tuples).root, Head(tuples).files,
                              extensions, acc))

\* a scanner whose except clauses catch PermissionError only
ScanHandlesPermissionOnly(exc) == exc = "PermissionError"

\* the except clauses of scan_directory: PermissionError, then OSError
ScanHandles(exc) == exc \in {"PermissionError", "OSError"}

\* scan_directory: the returned list, _scanned_files afterwards, whether an
\* exception escaped, and what os.walk yielded and raised
scan_directory(disk, extensions, directory_path, env) ==
    IF ~PathExists(disk, directory_path) \/ ~IsDir(disk, directory_path)
    THEN [result |-> <<>>, scanned_files |-> <<>>, raised |-> FALSE,
          tuples |-> <<>>, exc |-> "not called"]
    ELSE LET w == OsWalk(disk, directory_path, env)
             found == ScanTuples(w.tuples, extensions, <<>>)
         IN  IF w.exc = "none"
             THEN [result |-> SortByName(found), scanned_files |-> SortByName(found),
                   raised |-> FALSE, tuples |-> w.tuples, exc |-> w.exc]
             ELSE IF ScanHandles(w.exc)
             THEN [result |-> found, scanned_files |-> found,
                   raised |-> FALSE, tuples |-> w.tuples, exc |-> w.exc]
             ELSE [result |-> <<>>, scanned_files |-> found,
                   raised |-> TRUE, tuples |-> w.tuples, exc |-> w.exc]

\* the directories of the scanned tree: /, /s, /s/t, /u
DirT == <<"t">>
DirU == <<"u">>
ScanDirs == {Root, <<DirS>>, <<DirS, DirT>>, <<DirU>>}

\* the files a scanned tree may hold: two in the root, one media name twice,
\* extensions in upper case, a file that is no media file
ScanCandidates ==
    << <<<<"b", ".", "M", "P", "4">>>>,
       <<DirS, DirT, <<"a", ".", "m", "p", "4">>>>,
       <<DirS, <<"c", ".", "t", "x", "t">>>>,
       <<DirU, <<"B", ".", "m", "k", "v">>>>,
       <<<<"a", ".", "m", "p", "4">>>>,
       <<DirU, <<"b", ".", "m", "p", "4">>>> >>

ScanDisk(n) ==
    [dirs |-> ScanDirs,
     files |-> [p \in {ScanCandidates[i] : i \in 1..n} |->
                  CHOOSE i \in 1..n : ScanCandidates[i] = p]]

\* configured extension sets: the default, one extension, one in upper case
ExtensionSets ==
    {DefaultExtensions, {<<".", "m", "p", "4">>}, {<<".", "M", "P", "4">>}}

ScanTargets == {Root, <<DirS>>, ScanCandidates[1], MissingPath}

Reversed(s) == [i \in 1..Len(s) |-> s[Len(s) + 1 - i]]

NoWalk ==
    [order |-> <<>>, dirOrder |-> <<>>, skipped |-> {}, exc |-> "none", at |-> 0]

\* what the operating system may do during one walk
WalkEnvs ==
    {[order |-> o, dirOrder |-> d, skipped |-> k, exc |-> f[1], at |-> f[2]] :
       o \in {ScanCandidates, Reversed(ScanCandidates)},
       d \in {<<<<DirS>>, <<DirS, DirT>>, <<DirU>>>>, <<<<DirU>>, <<DirS>>, <<DirS, DirT>>>>},
       k \in {{}, {<<DirS>>}, {<<DirU>>}},
       f \in {<<"none", 0>>}
              \cup ({"PermissionError", "OSError"} \X (0..Cardinality(ScanDirs)))}

InitScan ==
    /\ \E n \in 0..MaxScanFiles : fs = ScanDisk(n)
    /\ disk0 = fs
    /\ IdleRename
    /\ IdleManager
    /\ IdleEditors
    /\ IdleApp
    /\ media_extensions \in ExtensionSets
    /\ scanned_files = <<>>
    /\ scanCall = NoScanCall
    /\ nscans = 0

\* one call of scan_directory; the walk only happens for a directory
ScanDirectory ==
    /\ nscans < MaxScans
    /\ \E directory_path \in ScanTargets :
         \E env \in IF IsDir(fs, directory_path) THEN WalkEnvs ELSE {NoWalk} :
           \E out \in {scan_directory(fs, media_extensions, directory_path, env)} :
             /\ scanned_files' = out.scanned_files
             /\ scanCall' = [called |-> TRUE, directory_path |-> directory_path,
                             had_results |-> scanned_files # <<>>,
                             tuples |-> out.tuples, exc |-> out.exc,
                             raised |-> out.raised, result |-> out.result]
    /\ nscans' = nscans + 1
    /\ UNCHANGED <<renameVars, media_extensions, mdCall, mp4Vars, mkvCall, appVars>>

NextScan == ScanDirectory

SpecScan == InitScan /\ [][NextScan]_vars

---------------------------------------------------------------------------
(* MetadataManager over editors given at construction *)

ExtMp4 == <<".", "m", "p", "4">>
ExtM4v == <<".", "m", "4", "v">>
ExtMkv == <<".", "m", "k", "v">>

\* _default_editors: the map from extension to editor
DefaultEditors ==
    [e \in {ExtMp4, ExtM4v, ExtMkv} |-> IF e = ExtMkv THEN "mkv_editor" ELSE "mp4_editor"]

\* an editor lookup that finds the MPEG-4 editor for every file
GetEditorForAnyFile(editors, file_path) == Some("mp4_editor")

\* _get_editor: self._editors.get(file_path.suffix.lower())
get_editor(editors, file_path) ==
    LET extension == Lower(PathSuffix(file_path))
    IN  IF extension \in DOMAIN editors THEN Some(editors[extension]) ELSE None

MetadataUpdateResult(success, file_path, error) ==
    [success |-> success, file_path |-> file_path, error |-> error]

\* a title test that only asks for season and episode
TitleIsFormattedAnyTitle(metadata) == metadata.season > 0 /\ metadata.episode > 0

\* `if metadata.title and metadata.season > 0 and metadata.episode > 0`
TitleIsFormatted(metadata) ==
    metadata.title # <<>> /\ metadata.season > 0 /\ metadata.episode > 0

\* a manager whose renamer factory ignores the manager's configuration
FormattedMetadataDefaultPadding(episode_padding, metadata) ==
    IF TitleIsFormatted(metadata)
    THEN MediaMetadata(
             generate_episode_name(
                 MediaRenamer(metadata.title, DefaultPadding, None, FALSE),
                 metadata.season, metadata.episode),
             metadata.season, metadata.episode, metadata.genre,
             metadata.year, metadata.collection)
    ELSE metadata

\* the record update_metadata hands to the editor
FormattedMetadata(episode_padding, metadata) ==
    IF TitleIsFormatted(metadata)
    THEN MediaMetadata(
             generate_episode_name(
                 MediaRenamer(metadata.title, episode_padding, None, FALSE),
                 metadata.season, metadata.episode),
             metadata.season, metadata.episode, metadata.genre,
             metadata.year, metadata.collection)
    ELSE metadata

\* an except clause for OSError only
CatchesOSErrorOnly(kind) == kind = "OSError"

\* `except Exception`: every exception an editor raises
Catches(kind) == kind \in {"OSError", "ValueError"}

\* update_metadata.  env is what the editor's write does: return true or false,
\* or raise an exception of some kind with some message.
update_metadata(editors, episode_padding, file_path, metadata, env) ==
    LET handed == FormattedMetadata(episode_padding, metadata)
        editor == get_editor(editors, file_path)
    IN  IF editor = None
        THEN [result |-> MetadataUpdateResult(FALSE, file_path,
                                              Some("Unsupported file type")),
              writes |-> <<>>, outcome |-> "not called", raised |-> FALSE]
        ELSE LET w == <<[editor |-> editor[1], file_path |-> file_path,
                         metadata |-> handed]>>
             IN  IF env.outcome = "true"
                 THEN [result |-> MetadataUpdateResult(TRUE, file_path, None),
                       writes |-> w, outcome |-> "true", raised |-> FALSE]
                 ELSE IF env.outcome = "false"
                 THEN [result |-> MetadataUpdateResult(FALSE, file_path,
                                                       Some("Editor write failed")),
                       writes |-> w, outcome |-> "false", raised |-> FALSE]
                 ELSE IF Catches(env.kind)
                 THEN [result |-> MetadataUpdateResult(FALSE, file_path,
                                                       Some(env.message)),
                       writes |-> w, outcome |-> "exception", raised |-> FALSE]
                 ELSE [result |-> <<>>, writes |-> w, outcome |-> "exception",
                       raised |-> TRUE]

\* read_metadata.  env is what the editor's read does: return a record or raise.
read_metadata(editors, file_path, env) ==
    LET editor == get_editor(editors, file_path)
    IN  IF editor = None
        THEN [result |-> EmptyMetadata, reads |-> <<>>, outcome |-> "not called",
              raised |-> FALSE]
        ELSE LET r == <<[editor |-> editor[1], file_path |-> file_path]>>
             IN  IF env.outcome = "exception"
                 THEN [result |-> <<>>, reads |-> r, outcome |-> "exception",
                       raised |-> TRUE]
                 ELSE [result |-> env.metadata, reads |-> r, outcome |-> "true",
                       raised |-> FALSE]

\* paths handed to the manager: supported in lower and upper case, unsupported,
\* without extension
MetaPaths ==
    { <<<<"a", ".", "m", "p", "4">>>>, <<<<"b", ".", "M", "K", "V">>>>,
      <<<<"c", ".", "t", "x", "t">>>>, <<<<"d">>>> }

MetaNumbers == {-1, 0, 1, Pow10(MaxDigits - 1)}

GenreG == <<"G">>
CollectionC == <<"C">>

MetaInputs ==
    {MediaMetadata(t, s, e, g, y, c) :
       t \in {TitleEmpty, TitleT, TitleSub, TitleDotted}, s \in MetaNumbers,
       e \in MetaNumbers,
       g \in {<<>>, GenreG}, y \in {0, 2002}, c \in {<<>>, CollectionC}}

\* editor maps given to the constructor: the default one, and MPEG-4 only
EditorMaps == {DefaultEditors, [e \in {ExtMp4} |-> "mp4_editor"]}

MessageBoom == "boom"

WriteOutcomes ==
    {[outcome |-> "true", kind |-> "none", message |-> ""],
     [outcome |-> "false", kind |-> "none", message |-> ""],
     [outcome |-> "exception", kind |-> "OSError", message |-> MessageBoom],
     [outcome |-> "exception", kind |-> "ValueError", message |-> ""]}

ReadOutcomes ==
    {[outcome |-> "true", metadata |-> EmptyMetadata],
     [outcome |-> "true",
      metadata |-> MediaMetadata(TitleT, 1, 1, GenreG, 2002, <<>>)],
     [outcome |-> "exception", metadata |-> EmptyMetadata]}

InitMeta ==
    /\ fs = ScanDisk(0)
    /\ disk0 = fs
    /\ IdleRename
    /\ IdleOthers

UpdateMetadata ==
    /\ ~mdCall.called
    /\ \E editors \in EditorMaps, episode_padding \in Paddings,
          file_path \in MetaPaths, metadata \in MetaInputs, env \in WriteOutcomes :
         \E out \in {update_metadata(editors, episode_padding, file_path, metadata, env)} :
           mdCall' = [called |-> TRUE, op |-> "update", editors |-> editors,
                      episode_padding |-> episode_padding, file_path |-> file_path,
                      metadata |-> metadata, env |-> env, reads |-> <<>>,
                      writes |-> out.writes,
                      outcome |-> out.outcome, raised |-> out.raised,
                      result |-> out.result]
    /\ UNCHANGED <<renameVars, scanVars, mp4Vars, mkvCall, appVars>>

ReadMetadata ==
    /\ ~mdCall.called
    /\ \E editors \in EditorMaps, file_path \in MetaPaths, env \in ReadOutcomes :
         \E out \in {read_metadata(editors, file_path, env)} :
           mdCall' = [called |-> TRUE, op |-> "read", editors |-> editors,
                      episode_padding |-> 3, file_path |-> file_path,
                      metadata |-> <<>>, env |-> env, reads |-> out.reads,
                      writes |-> <<>>,
                      outcome |-> out.outcome, raised |-> out.raised,
                      result |-> out.result]
    /\ UNCHANGED <<renameVars, scanVars, mp4Vars, mkvCall, appVars>>

NextMeta == UpdateMetadata \/ ReadMetadata

SpecMeta == InitMeta /\ [][NextMeta]_vars

---------------------------------------------------------------------------
(* MP4Editor (editors/mp4_editor.py) on the tags of one MPEG-4 file *)

\* key in mp4
HasTag(mp4, key) == mp4[key] # None

\* mp4.get(key): the list stored under a present key
GetTag(mp4, key) == mp4[key][1]

\* mp4[key] = value
SetTag(mp4, key, value) == [mp4 EXCEPT ![key] = Some(value)]

\* a str assigned to a text tag is stored as the list that holds it
TextTag(s) == <<s>>

\* an _apply_metadata that writes all five tags whatever the fields hold
ApplyMetadataAlways(mp4, metadata) ==
    LET a == SetTag(mp4, KeyTitle, TextTag(metadata.title))
        b == SetTag(a, KeySeason, <<metadata.season>>)
        c == SetTag(b, KeyEpisode, <<metadata.episode>>)
        d == SetTag(c, KeyGenre, TextTag(metadata.genre))
    IN  SetTag(d, KeyDate, <<Str(metadata.year)>>)

\* MP4Editor._apply_metadata
apply_metadata(mp4, metadata) ==
    LET a == IF metadata.title # <<>>
             THEN SetTag(mp4, KeyTitle, TextTag(metadata.title)) ELSE mp4
        b == IF metadata.season > 0
             THEN SetTag(a, KeySeason, <<metadata.season>>) ELSE a
        c == IF metadata.episode > 0
             THEN SetTag(b, KeyEpisode, <<metadata.episode>>) ELSE b
        d == IF metadata.genre # <<>>
             THEN SetTag(c, KeyGenre, TextTag(metadata.genre)) ELSE c
    IN  IF metadata.year > 0
        THEN SetTag(d, KeyDate, <<Str(metadata.year)>>) ELSE d

\* What opening and saving the file can do: "ok"; "open_error", MP4(path) raises;
\* "save_error", the tag store or save() raises before the file is changed;
\* "late_error", save() raises after the tags reached the file.
Mp4WriteEnvs == {"ok", "open_error", "save_error", "late_error"}

\* MP4Editor.write: the tags of the file afterwards and the returned value
mp4_write(file_tags, metadata, env) ==
    [tags   |-> IF env \in {"ok", "late_error"}
                THEN apply_metadata(file_tags, metadata) ELSE file_tags,
     result |-> env = "ok",
     raised |-> FALSE]

\* a year parsed from the whole date value
YearOfDateWhole(value) ==
    LET n == PyInt(value) IN IF n = None THEN 0 ELSE n[1]

\* int(str(value)[:4]), 0 where that raises ValueError
YearOfDate(value) ==
    LET n == PyInt(Prefix(value, 4)) IN IF n = None THEN 0 ELSE n[1]

\* the first element of a present, non-empty list, else the default
FirstOr(mp4, key, default) ==
    IF HasTag(mp4, key) /\ GetTag(mp4, key) # <<>>
    THEN GetTag(mp4, key)[1] ELSE default

Mp4ReadEnvs == {"ok", "open_error"}

\* MP4Editor.read
mp4_read(file_tags, env) ==
    IF env = "open_error" THEN EmptyMetadata
    ELSE MediaMetadata(
            FirstOr(file_tags, KeyTitle, <<>>),
            FirstOr(file_tags, KeySeason, 0),
            FirstOr(file_tags, KeyEpisode, 0),
            FirstOr(file_tags, KeyGenre, <<>>),
            IF FirstOr(file_tags, KeyDate, <<>>) # <<>>
            THEN YearOfDate(FirstOr(file_tags, KeyDate, <<>>)) ELSE 0,
            <<>>)

\* files the editor is given: without tags, fully tagged by another tool (with a
\* full date), and partly tagged (an empty genre list, a date that is no number)
TagsFull ==
    [k \in TagKeys |->
        CASE k = KeyTitle   -> Some(<< <<"O", "l", "d">> >>)
          [] k = KeySeason  -> Some(<<3>>)
          [] k = KeyEpisode -> Some(<<7>>)
          [] k = KeyGenre   -> Some(<< <<"D">> >>)
          [] k = KeyDate    -> Some(<< <<"1", "9", "9", "9", "-", "0", "1", "-", "1", "5">> >>)
          [] OTHER          -> Some(<< <<"d">> >>)]

TagsPartial ==
    [k \in TagKeys |->
        CASE k = KeySeason -> Some(<<3>>)
          [] k = KeyGenre  -> Some(<<>>)
          [] k = KeyDate   -> Some(<< <<"x">> >>)
          [] k = KeyOther  -> Some(<< <<"d">> >>)
          [] OTHER         -> None]

Mp4Files == {NoTags, TagsFull, TagsPartial}

\* (season, episode) pairs and years written
Mp4Episodes == {<<2, 10>>, <<0, -1>>}

Mp4Years == {0, 2024, 10000}

Mp4Inputs ==
    {MediaMetadata(t, e[1], e[2], g, y, <<>>) :
        t \in {<<>>, <<"S", "h", "o", "w">>}, e \in Mp4Episodes,
        g \in {<<>>, <<"A">>}, y \in Mp4Years}

InitMp4 ==
    /\ fs = ScanDisk(0)
    /\ disk0 = fs
    /\ IdleRename
    /\ IdleScanner
    /\ IdleManager
    /\ IdleApp
    /\ tags \in Mp4Files
    /\ tags0 = tags
    /\ mp4Write = NoMp4Write
    /\ mp4Read = NoMp4Read
    /\ nwrites = 0
    /\ mkvCall = NoMkvCall

\* one MP4Editor.write call on the file
Mp4Write ==
    /\ nwrites < MaxWrites
    /\ \E metadata \in Mp4Inputs, env \in Mp4WriteEnvs :
         \E out \in {mp4_write(tags, metadata, env)} :
            /\ tags' = out.tags
            /\ mp4Write' = [called |-> TRUE, n |-> nwrites + 1,
                            metadata |-> metadata, env |-> env, before |-> tags,
                            result |-> out.result, raised |-> out.raised]
    /\ nwrites' = nwrites + 1
    /\ mp4Read' = NoMp4Read
    /\ UNCHANGED <<renameVars, scanVars, mdCall, tags0, mkvCall, appVars>>

\* one MP4Editor.read call on the file as the last write left it
Mp4Read ==
    /\ ~mp4Read.called
    /\ \E env \in Mp4ReadEnvs :
         mp4Read' = [called |-> TRUE, env |-> env,
                     result |-> mp4_read(tags, env), raised |-> FALSE]
    /\ UNCHANGED <<renameVars, scanVars, mdCall, tags, tags0, mp4Write, nwrites,
                   mkvCall, appVars>>

NextMp4 == Mp4Write \/ Mp4Read

SpecMp4 == InitMp4 /\ [][NextMp4]_vars

---------------------------------------------------------------------------
(* MKVEditor.write (editors/mkv_editor.py) and the mkvpropedit process *)

\* MKVEditor.__init__: the default executable
Mkvpropedit == "mkvpropedit"

\* What subprocess.run can do: the tool exits with a return code (negative when a
\* signal killed it), or run raises.
ToolExit(code) == [kind |-> "exit", returncode |-> code, exc |-> "none"]

ToolRaises(exc) == [kind |-> "raise", returncode |-> 0, exc |-> exc]

ToolOutcomes ==
    {ToolExit(c) : c \in {0, 1, 2, -9}} \cup
    {ToolRaises(e) : e \in {"FileNotFoundError", "TimeoutExpired",
                            "PermissionError", "ValueError"}}

\* a write that handles only the two failures it names
MkvCatchesNamedOnly(exc) == exc \in {"FileNotFoundError", "TimeoutExpired"}

\* the except clauses of write: the two named ones, then Exception
MkvCatches(exc) ==
    \/ exc \in {"FileNotFoundError", "TimeoutExpired"}
    \/ exc \in {"PermissionError", "ValueError"}

\* f"title={metadata.title}"
TitleAssignment(title) == <<"t", "i", "t", "l", "e", "=">> \o title

\* the argument list handed to subprocess.run
ToolCommand(mkvpropedit, file_path, metadata) ==
    <<mkvpropedit, file_path, "--edit", "info", "--set",
      TitleAssignment(metadata.title)>>

\* MKVEditor.write: the commands run, the returned value, and whether it raised
mkv_write(mkvpropedit, file_path, metadata, env) ==
    IF metadata.title = <<>>
    THEN [runs |-> <<>>, result |-> TRUE, raised |-> FALSE]
    ELSE [runs   |-> <<ToolCommand(mkvpropedit, file_path, metadata)>>,
          result |-> env.kind = "exit" /\ env.returncode = 0,
          raised |-> env.kind = "raise" /\ ~MkvCatches(env.exc)]

MkvPaths == {<<<<"a", ".", "m", "k", "v">>>>, <<<<"u">>, <<"B", ".", "m", "k", "v">>>>}

MkvInputs ==
    {MediaMetadata(t, n, e, g, y, <<>>) :
        t \in {<<>>, <<"T">>, <<"A", "=", "B">>}, n \in {0, 2}, e \in {0, 5},
        g \in {<<>>, <<"G">>}, y \in {0, 2024}}

InitMkv ==
    /\ fs = ScanDisk(0)
    /\ disk0 = fs
    /\ IdleRename
    /\ IdleOthers

\* one MKVEditor.write call
MkvWrite ==
    /\ ~mkvCall.called
    /\ \E file_path \in MkvPaths, metadata \in MkvInputs, env \in ToolOutcomes :
         \E out \in {mkv_write(Mkvpropedit, file_path, metadata, env)} :
            mkvCall' = [called |-> TRUE, file_path |-> file_path,
                        metadata |-> metadata, env |-> env, runs |-> out.runs,
                        result |-> out.result, raised |-> out.raised]
    /\ UNCHANGED <<renameVars, scanVars, mdCall, mp4Vars, appVars>>

NextMkv == MkvWrite

SpecMkv == InitMkv /\ [][NextMkv]_vars

---------------------------------------------------------------------------
(* The episode padding: AppConfig.from_env (config.py) and the padding selector
   of the main window (ui/gui.py) *)

\* values of MEDIA_ORGANIZER_EPISODE_PADDING: unset, or a string
PaddingEnvValues ==
    {None} \cup
    {Some(v) : v \in {<<>>, <<"2">>, <<"3">>, <<"0", "2">>, <<" ", "2", " ">>,
                      <<"+", "3">>, <<"0">>, <<"4">>, <<"5">>, <<"1", "0">>,
                      <<"2", "3">>, <<"-", "2">>, <<"2", ".", "5">>,
                      <<"a", "b", "c">>, <<"2", "_", "3">>, <<" ">>}}

\* a from_env that takes every number
PaddingAcceptedAny(padding) == TRUE

\* padding in (2, 3)
PaddingAccepted(padding) == padding \in {2, 3}

\* extensions.split(","): the pieces between the commas, empty ones included
RECURSIVE SplitCommasAcc(_, _, _)
SplitCommasAcc(s, cur, acc) ==
    IF s = <<>> THEN Append(acc, cur)
    ELSE IF Head(s) = "," THEN SplitCommasAcc(Tail(s), <<>>, Append(acc, cur))
    ELSE SplitCommasAcc(Tail(s), Append(cur, Head(s)), acc)

SplitCommas(s) == SplitCommasAcc(s, <<>>, <<>>)

\* ext.strip() if ext.strip().startswith(".") else f".{ext.strip()}"
DotPrefixed(ext) ==
    IF Strip(ext) # <<>> /\ Strip(ext)[1] = "." THEN Strip(ext)
    ELSE <<".">> \o Strip(ext)

\* the set comprehension of from_env over the entries of the variable
ParseExtensions(extensions) ==
    {DotPrefixed(SplitCommas(extensions)[i]) :
        i \in 1..Len(SplitCommas(extensions))}

\* AppConfig.from_env, for the episode padding and the extensions.  Padding: an
\* unset or empty variable, a value int() rejects and a number that is not
\* accepted keep the default.  Extensions: an unset or empty variable keeps the
\* default set.
from_env(value, extensions) ==
    [episode_padding |->
        IF value = None \/ value[1] = <<>> THEN DefaultPadding
        ELSE IF PyInt(value[1]) = None THEN DefaultPadding
        ELSE IF PaddingAccepted(PyInt(value[1])[1]) THEN PyInt(value[1])[1]
        ELSE DefaultPadding,
     media_extensions |->
        IF extensions = None \/ extensions[1] = <<>> THEN DefaultExtensions
        ELSE ParseExtensions(extensions[1])]

\* the items of the padding selector: index -> data
PaddingItems == <<2, 3>>

\* QComboBox.currentData()
currentData(index) == PaddingItems[index + 1]

WindowTitles == {<<>>, <<"T">>}

InitConfig ==
    /\ fs = ScanDisk(0)
    /\ disk0 = fs
    /\ IdleRename
    /\ IdleScanner
    /\ IdleManager
    /\ IdleEditors
    /\ environ \in PaddingEnvValues
    /\ environ_extensions = None
    /\ config = None
    /\ window = NoWindow
    /\ nclicks = 0
    /\ IdleGui

\* main: config = AppConfig.from_env(); the scanner of the application reads
\* its extensions from this configuration
FromEnv ==
    /\ config = None
    /\ config' = Some(from_env(environ, environ_extensions))
    /\ media_extensions' = from_env(environ, environ_extensions).media_extensions
    /\ UNCHANGED <<renameVars, scanned_files, scanCall, nscans, mdCall, mp4Vars,
                   mkvCall, environ, environ_extensions, window, nclicks, guiVars>>

\* run_gui: the window is built on the loaded configuration; the selector shows
\* the configured padding and is disabled until sequencing is ticked
OpenWindow ==
    /\ config # None
    /\ ~window.open
    /\ window' = [NoWindow EXCEPT
                    !.open = TRUE,
                    !.padding_combo =
                        IF config[1].episode_padding = 2 THEN 0 ELSE 1,
                    !.buttons_enabled = TRUE]
    /\ UNCHANGED <<renameVars, scanVars, mdCall, mp4Vars, mkvCall, environ,
                   environ_extensions, config, nclicks, guiVars>>

\* _on_sequence_toggled
SequenceToggled ==
    /\ window.open
    /\ window' = [window EXCEPT !.sequence_check = ~window.sequence_check,
                                !.padding_enabled = ~window.sequence_check]
    /\ UNCHANGED <<renameVars, scanVars, mdCall, mp4Vars, mkvCall, environ,
                   environ_extensions, config, nclicks, guiVars>>

\* the user picks an item of the enabled padding selector
PaddingSelected ==
    /\ window.open
    /\ window.padding_enabled
    /\ \E index \in 0..(Len(PaddingItems) - 1) :
         /\ index # window.padding_combo
         /\ window' = [window EXCEPT !.padding_combo = index]
    /\ UNCHANGED <<renameVars, scanVars, mdCall, mp4Vars, mkvCall, environ,
                   environ_extensions, config, nclicks, guiVars>>

\* the user edits the title, or the file table and its check marks change
InputsEdited ==
    /\ window.open
    /\ \E title \in WindowTitles, files \in 0..1 :
         \E selected \in 0..files :
            /\ <<title, files, selected>> #
                  <<window.title, window.files, window.selected>>
            /\ window' = [window EXCEPT !.title = title, !.files = files,
                                        !.selected = selected]
    /\ UNCHANGED <<renameVars, scanVars, mdCall, mp4Vars, mkvCall, environ,
                   environ_extensions, config, nclicks, guiVars>>

\* _on_rename_clicked: three early returns, then the selected padding is stored
\* in the configuration and the renamer of the batch is built on it
RenameClicked ==
    /\ window.open
    /\ window.buttons_enabled
    /\ nclicks < MaxClicks
    /\ IF window.files = 0
       THEN UNCHANGED <<window, config, renamer, nclicks>>
       ELSE IF window.selected = 0
       THEN /\ window' = [window EXCEPT !.status = "No files selected"]
            /\ UNCHANGED <<config, renamer, nclicks>>
       ELSE IF window.title = <<>>
       THEN /\ window' = [window EXCEPT !.status = "Please enter a title"]
            /\ UNCHANGED <<config, renamer, nclicks>>
       ELSE /\ window' = [window EXCEPT !.status = "Renaming",
                                        !.buttons_enabled = FALSE]
            /\ config' = Some([config[1] EXCEPT
                   !.episode_padding = currentData(window.padding_combo)])
            /\ renamer' = MediaRenamer(window.title,
                                       currentData(window.padding_combo),
                                       None, FALSE)
            /\ nclicks' = nclicks + 1
    /\ UNCHANGED <<fs, disk0, last, ncalls, nameCall, media_files, worker, calls,
                   progress, scanVars, mdCall, mp4Vars, mkvCall, environ,
                   environ_extensions, guiVars>>

\* _on_rename_finished
RenameFinished ==
    /\ window.open
    /\ window.status = "Renaming"
    /\ window' = [window EXCEPT !.buttons_enabled = TRUE,
                                !.status = "Renaming complete"]
    /\ UNCHANGED <<renameVars, scanVars, mdCall, mp4Vars, mkvCall, environ,
                   environ_extensions, config, nclicks, guiVars>>

NextConfig ==
    \/ FromEnv
    \/ OpenWindow
    \/ SequenceToggled
    \/ PaddingSelected
    \/ InputsEdited
    \/ RenameClicked
    \/ RenameFinished

SpecConfig == InitConfig /\ [][NextConfig]_vars

---------------------------------------------------------------------------
(* The extensions of the environment, as the scanner uses them *)

\* values of MEDIA_ORGANIZER_EXTENSIONS: unset, or a string
ExtensionEnvValues ==
    {None} \cup
    {Some(v) : v \in {<<>>,
                      <<".", "m", "p", "4", ",", ".", "m", "k", "v">>,
                      <<"m", "p", "4", ",", "m", "k", "v">>,
                      <<" ", ".", "m", "p", "4", " ", ",", " ", "m", "k", "v", " ">>,
                      <<".", "M", "P", "4">>,
                      <<"M", "p", "4">>,
                      <<"m", "p", "4", ",">>}}

InitExt ==
    /\ \E n \in 1..2 : fs = ScanDisk(n)
    /\ disk0 = fs
    /\ IdleRename
    /\ IdleScanner
    /\ IdleManager
    /\ IdleEditors
    /\ environ = None
    /\ environ_extensions \in ExtensionEnvValues
    /\ config = None
    /\ window = NoWindow
    /\ nclicks = 0
    /\ IdleGui

\* a scan by the scanner built on the loaded configuration
ScanConfigured == config # None /\ ScanDirectory

NextExt == FromEnv \/ ScanConfigured

SpecExt == InitExt /\ [][NextExt]_vars

---------------------------------------------------------------------------
(* The main window (ui/gui.py): its worker threads, the signals they post to
   the GUI thread, and the slots that handle them *)

GuiLetters == <<"a", "b", "c", "d">>
GuiName(i) == <<GuiLetters[i], ".", "m", "p", "4">>

\* a directory with the media files a.mp4, b.mp4, ...
GuiDisk(n) ==
    [dirs |-> Dirs0,
     files |-> [p \in {<<GuiName(i)>> : i \in 1..n} |->
                  CHOOSE i \in 1..n : <<GuiName(i)>> = p]]

RECURSIVE SeqOf(_)
SeqOf(S) ==
    IF S = {} THEN <<>>
    ELSE LET x == CHOOSE y \in S : TRUE IN <<x>> \o SeqOf(S \ {x})

\* what the operating system does during a walk of the window's directory:
\* it lists the files in some order or in the opposite one, and raises nothing
GuiWalkEnvs(disk) ==
    {[order |-> o, dirOrder |-> <<<<DirS>>>>, skipped |-> {}, exc |-> "none",
      at |-> 0] :
       o \in {SeqOf(DOMAIN disk.files), Reversed(SeqOf(DOMAIN disk.files))}}

\* what an editor's write does during a metadata batch
GuiWriteOutcomes ==
    {[outcome |-> "true", kind |-> "none", message |-> ""],
     [outcome |-> "false", kind |-> "none", message |-> ""]}

\* what os.rename answers during a rename batch
GuiOsOutcomes == {"ok", "EACCES"}

\* a QThread object of one of the three worker classes, started; pos and pc
\* are the position of run(): the index of the file in hand and the statement
\* that comes next; log is what run() has done so far
NewThread(kind) ==
    [kind |-> kind, state |-> "running", directory |-> Root, files |-> <<>>,
     title |-> <<>>, season |-> 0, episode |-> 0, episodic |-> FALSE,
     base_metadata |-> EmptyMetadata, pos |-> 1, pc |-> "emit",
     current_episode |-> 0, result |-> None, log |-> <<>>]

\* ScanWorker(scanner, directory)
ScanWorker(directory) == [NewThread("scan") EXCEPT !.directory = directory]

\* RenameWorker(files, renamer, season, episode, episodic); the renamer holds
\* the title and a reference to the configuration of the window
RenameWorker(files, title, season, episode, episodic) ==
    [NewThread("rename") EXCEPT !.files = files, !.title = title,
                                !.season = season, !.episode = episode,
                                !.episodic = episodic,
                                !.current_episode = episode]

\* MetadataWorker(files, manager, metadata)
MetadataWorker(files, metadata) ==
    [NewThread("metadata") EXCEPT !.files = files, !.base_metadata = metadata]

Running(t) == t \in 1..Len(threads) /\ threads[t].state = "running"

\* Signal.emit from a worker thread to a slot of the window: a queued call
Post(signal) == queue' = Append(queue, signal)

\* ScanWorker.run
ScanWorkerRun ==
    \E t \in 1..Len(threads) :
      /\ Running(t)
      /\ threads[t].kind = "scan"
      /\ \E env \in GuiWalkEnvs(fs) :
           \E out \in {scan_directory(fs, config[1].media_extensions,
                                      threads[t].directory, env)} :
             /\ scanned_files' = out.scanned_files
             /\ Post([signal |-> "scan_finished", sender |-> t,
                      files |-> out.result])
             /\ threads' = [threads EXCEPT
                              ![t].state = "finished",
                              ![t].log = Append(@, [ev |-> "finished"])]
      /\ UNCHANGED <<besideWindow, fs, media_files, config, gui>>

\* a loop that stops at the first file that fails
NextFileStopAtFailure(pos, success, n) == IF success THEN pos + 1 ELSE n + 1

\* `for row_index, media_file in self._files`: the next file, whatever happened
NextFile(pos, success, n) == pos + 1

\* RenameWorker.run, top of the loop body: self.progress.emit(row, "Processing...")
RenameEmitProgress ==
    \E t \in 1..Len(threads) :
      /\ Running(t)
      /\ threads[t].kind = "rename"
      /\ threads[t].pos <= Len(threads[t].files)
      /\ threads[t].pc = "emit"
      /\ Post([signal |-> "progress", sender |-> t,
               row |-> threads[t].files[threads[t].pos].row,
               status |-> "Processing..."])
      /\ threads' = [threads EXCEPT
                       ![t].pc = "call",
                       ![t].log = Append(@, [ev |-> "progress",
                                             row |-> threads[t].files[threads[t].pos].row,
                                             status |-> "Processing..."])]
      /\ UNCHANGED <<besideWindow, fs, media_files, scanned_files, config, gui>>

\* RenameWorker.run: result = self._renamer.rename_file(media_file.path, ...)
RenameCall ==
    \E t \in 1..Len(threads) :
      /\ Running(t)
      /\ threads[t].kind = "rename"
      /\ threads[t].pc = "call"
      /\ \E env \in GuiOsOutcomes :
           \E out \in {rename_file(fs,
                                   MediaRenamer(threads[t].title,
                                                config[1].episode_padding,
                                                None, FALSE),
                                   threads[t].files[threads[t].pos].file.path,
                                   threads[t].season, threads[t].current_episode,
                                   threads[t].episodic, env)} :
             /\ fs' = out.disk
             /\ threads' = [threads EXCEPT
                    ![t].pc = "report",
                    ![t].result = Some(out.result),
                    ![t].log = Append(@,
                        [ev |-> "call", pos |-> threads[t].pos,
                         path |-> threads[t].files[threads[t].pos].file.path,
                         season |-> threads[t].season,
                         episode |-> threads[t].current_episode,
                         episodic |-> threads[t].episodic,
                         result |-> out.result])]
      /\ UNCHANGED <<besideWindow, media_files, scanned_files, config, gui, queue>>


\* RenameWorker.run: the status of the file is emitted and, after a success in
\* episodic mode, the counter advances
RenameEmitStatus ==
    \E t \in 1..Len(threads) :
      /\ Running(t)
      /\ threads[t].kind = "rename"
      /\ threads[t].pc = "report"
      /\ Post([signal |-> "progress", sender |-> t,
               row |-> threads[t].files[threads[t].pos].row,
               status |-> StatusOf(threads[t].result[1])])
      /\ threads' = [threads EXCEPT
            ![t].pc = "emit",
            ![t].pos = NextFile(@, threads[t].result[1].success,
                                Len(threads[t].files)),
            ![t].current_episode =
                NextEpisode(@, threads[t].result[1].success, threads[t].episodic),
            ![t].log = Append(@, [ev |-> "progress",
                                  row |-> threads[t].files[threads[t].pos].row,
                                  status |-> StatusOf(threads[t].result[1])])]
      /\ UNCHANGED <<besideWindow, fs, media_files, scanned_files, config, gui>>

\* RenameWorker.run after the loop: self.finished.emit(), and the thread ends
RenameEmitFinished ==
    \E t \in 1..Len(threads) :
      /\ Running(t)
      /\ threads[t].kind = "rename"
      /\ threads[t].pos > Len(threads[t].files)
      /\ Post([signal |-> "rename_finished", sender |-> t])
      /\ threads' = [threads EXCEPT
                       ![t].state = "finished",
                       ![t].log = Append(@, [ev |-> "finished"])]
      /\ UNCHANGED <<besideWindow, fs, media_files, scanned_files, config, gui>>

\* a worker that gives every file the base episode
EpisodeOfFileBase(base, i) == base

\* `episode=self._base_metadata.episode + i`, i counting the files from 0
EpisodeOfFile(base, i) == base + i

\* the MediaMetadata that run() builds for the file at position pos (from 1)
MetadataOfFile(base_metadata, pos) ==
    MediaMetadata(base_metadata.title, base_metadata.season,
                  EpisodeOfFile(base_metadata.episode, pos - 1),
                  base_metadata.genre, base_metadata.year, <<>>)

\* the status MetadataWorker emits after the call
MetadataStatusOf(result) ==
    IF result.success THEN "Updated" ELSE "Failed: " \o result.error[1]

\* MetadataWorker.run, top of the loop body: self.progress.emit(row, "Updating...")
MetadataEmitProgress ==
    \E t \in 1..Len(threads) :
      /\ Running(t)
      /\ threads[t].kind = "metadata"
      /\ threads[t].pos <= Len(threads[t].files)
      /\ threads[t].pc = "emit"
      /\ Post([signal |-> "progress", sender |-> t,
               row |-> threads[t].files[threads[t].pos].row,
               status |-> "Updating..."])
      /\ threads' = [threads EXCEPT
                       ![t].pc = "call",
                       ![t].log = Append(@, [ev |-> "progress",
                                             row |-> threads[t].files[threads[t].pos].row,
                                             status |-> "Updating..."])]
      /\ UNCHANGED <<besideWindow, fs, media_files, scanned_files, config, gui>>

\* MetadataWorker.run: result = self._manager.update_metadata(media_file.path, metadata)
MetadataCall ==
    \E t \in 1..Len(threads) :
      /\ Running(t)
      /\ threads[t].kind = "metadata"
      /\ threads[t].pc = "call"
      /\ \E env \in GuiWriteOutcomes :
           \E out \in {update_metadata(DefaultEditors, config[1].episode_padding,
                                       threads[t].files[threads[t].pos].file.path,
                                       MetadataOfFile(threads[t].base_metadata,
                                                      threads[t].pos),
                                       env)} :
             threads' = [threads EXCEPT
                    ![t].pc = "report",
                    ![t].result = Some(out.result),
                    ![t].log = Append(@,
                        [ev |-> "call", pos |-> threads[t].pos,
                         path |-> threads[t].files[threads[t].pos].file.path,
                         metadata |-> MetadataOfFile(threads[t].base_metadata,
                                                     threads[t].pos),
                         exists |-> PathExists(fs, threads[t].files[threads[t].pos].file.path),
                         result |-> out.result])]
      /\ UNCHANGED <<besideWindow, fs, media_files, scanned_files, config, gui, queue>>

\* MetadataWorker.run: the status of the file is emitted
MetadataEmitStatus ==
    \E t \in 1..Len(threads) :
      /\ Running(t)
      /\ threads[t].kind = "metadata"
      /\ threads[t].pc = "report"
      /\ Post([signal |-> "progress", sender |-> t,
               row |-> threads[t].files[threads[t].pos].row,
               status |-> MetadataStatusOf(threads[t].result[1])])
      /\ threads' = [threads EXCEPT
            ![t].pc = "emit",
            ![t].pos = NextFile(@, threads[t].result[1].success,
                                Len(threads[t].files)),
            ![t].log = Append(@, [ev |-> "progress",
                                  row |-> threads[t].files[threads[t].pos].row,
                                  status |-> MetadataStatusOf(threads[t].result[1])])]
      /\ UNCHANGED <<besideWindow, fs, media_files, scanned_files, config, gui>>

\* MetadataWorker.run after the loop: self.finished.emit(), and the thread ends
MetadataEmitFinished ==
    \E t \in 1..Len(threads) :
      /\ Running(t)
      /\ threads[t].kind = "metadata"
      /\ threads[t].pos > Len(threads[t].files)
      /\ Post([signal |-> "metadata_finished", sender |-> t])
      /\ threads' = [threads EXCEPT
                       ![t].state = "finished",
                       ![t].log = Append(@, [ev |-> "finished"])]
      /\ UNCHANGED <<besideWindow, fs, media_files, scanned_files, config, gui>>


\* a row of the file table: the check box item of column 0 ("none" when the
\* row has no such item), the file whose name and extension columns 1 and 2
\* show, the text of the status item of column 4 (None when the row has no
\* such item) and the file that text was reported for
EmptyRow == [check |-> "none", shown |-> None, status |-> None, status_of |-> None]

\* the five items _on_scan_finished puts into the row of one file
FreshRow(media_file) ==
    [check |-> "checked", shown |-> Some(media_file.path),
     status |-> Some("Pending"), status_of |-> Some(media_file.path)]

\* setRowCount(n): rows beyond n are dropped, new rows have no items
Resized(rows, n) == [i \in 1..n |-> IF i <= Len(rows) THEN rows[i] ELSE EmptyRow]

\* the first file of the list whose stat() raises (it is not on the disk), or
\* one more than the length of the list
FirstMissing(disk, files) ==
    IF \E i \in 1..Len(files) : ~PathExists(disk, files[i].path)
    THEN CHOOSE i \in 1..Len(files) :
            /\ ~PathExists(disk, files[i].path)
            /\ \A j \in 1..(i - 1) : PathExists(disk, files[j].path)
    ELSE Len(files) + 1

\* the loop of _on_scan_finished: the rows before the first missing file get
\* their five items; in the row of the missing file the check box, name and
\* extension items are set before stat() raises; later rows are not reached
Populated(rows, disk, files) ==
    [i \in 1..Len(files) |->
        IF i < FirstMissing(disk, files) THEN FreshRow(files[i])
        ELSE IF i = FirstMissing(disk, files)
        THEN [Resized(rows, Len(files))[i] EXCEPT
                !.check = "checked", !.shown = Some(files[i].path)]
        ELSE Resized(rows, Len(files))[i]]

\* the order of two rows under a sort by the Name column
RowBefore(a, b, order) ==
    IF order = "asc" THEN StrLeq(PathStem(a.shown[1]), PathStem(b.shown[1]))
    ELSE StrLeq(PathStem(b.shown[1]), PathStem(a.shown[1]))

\* QTableWidget sorting by the Name column: whole rows move, rows with equal
\* names keep their order
RECURSIVE SortRows(_, _)
SortRows(rows, order) ==
    IF rows = <<>> THEN <<>>
    ELSE LET front == SortRows(SubSeq(rows, 1, Len(rows) - 1), order)
             x == rows[Len(rows)]
             k == Cardinality({i \in 1..Len(front) : RowBefore(front[i], x, order)})
         IN  SubSeq(front, 1, k) \o <<x>> \o SubSeq(front, k + 1, Len(front))

\* setSortingEnabled(True): the table is sorted by the section and order the
\* header shows; until the user clicks a header that leaves the rows in place
Resorted(rows, sort_order) ==
    IF sort_order = None THEN rows ELSE SortRows(rows, sort_order[1])

\* a wait() that returns while the thread is running
WaitReturnsAtOnce(w) == TRUE

\* _cleanup_worker: self._worker.wait() returns once run() of that thread has
\* returned; with no worker there is nothing to wait for
WaitReturns(w) == w = 0 \/ ~Running(w)

\* rename batches whose finished signal has been handled: each of them has
\* started a scan of its own
HandledRenames ==
    Cardinality({t \in 1..Len(threads) :
                   /\ threads[t].kind = "rename"
                   /\ ~Running(t)
                   /\ \A i \in 1..Len(queue) :
                        ~(queue[i].signal = "rename_finished" /\ queue[i].sender = t)})

\* the user may cause one more worker to start
MayStart == Len(threads) - HandledRenames < MaxWorkers

\* _on_scan_clicked on the window g
ScanClickedOn(g) ==
    IF g.current_dir = None
    THEN /\ gui' = [g EXCEPT !.status_bar = "Please select a directory first"]
         /\ UNCHANGED threads
    ELSE /\ WaitReturns(g.worker)
         /\ gui' = [g EXCEPT !.status_bar = "Scanning", !.scan_action = FALSE,
                             !.worker = Len(threads) + 1]
         /\ threads' = Append(threads, ScanWorker(g.current_dir[1]))

\* _on_folder_selected on a window whose _current_dir has just been set
FolderSelected(g, folder) ==
    [g EXCEPT !.current_dir = Some(folder), !.scan_action = TRUE,
              !.refresh_action = TRUE]

\* _on_browse_clicked, the dialog returning a folder
OnBrowseClicked ==
    /\ MayStart
    /\ ScanClickedOn(FolderSelected(gui, Root))
    /\ UNCHANGED <<besideWindow, fs, media_files, scanned_files, config, queue>>

\* what the user may drop on the window: the directory, or its first file
DroppedPaths == {Root, <<GuiName(1)>>}

\* dropEvent: a directory is scanned, a media file has its directory scanned,
\* anything else is ignored
DropEvent ==
    /\ MayStart
    /\ \E path \in DroppedPaths :
         IF IsDir(fs, path)
         THEN ScanClickedOn(FolderSelected(gui, path))
         ELSE IF path \in DOMAIN fs.files
                 /\ Lower(PathSuffix(path)) \in config[1].media_extensions
         THEN ScanClickedOn(FolderSelected(gui, PathParent(path)))
         ELSE UNCHANGED <<gui, threads>>
    /\ UNCHANGED <<besideWindow, fs, media_files, scanned_files, config, queue>>

\* the Scan action of the toolbar
OnScanClicked ==
    /\ gui.scan_action
    /\ MayStart
    /\ ScanClickedOn(gui)
    /\ UNCHANGED <<besideWindow, fs, media_files, scanned_files, config, queue>>

\* the Refresh action of the toolbar, connected to _on_scan_clicked
OnRefreshClicked ==
    /\ gui.refresh_action
    /\ MayStart
    /\ ScanClickedOn(gui)
    /\ UNCHANGED <<besideWindow, fs, media_files, scanned_files, config, queue>>

\* _get_selected_files: (i, self._media_files[i]) for every row i whose check
\* box item is checked; rows are counted from 1 here.  Each pair also notes
\* the file that row i showed when the selection was taken
SelectedFiles(rows, files) ==
    SelectSeq([i \in 1..Len(rows) |->
                  [row |-> i, file |-> files[i], shown |-> rows[i].shown]],
              LAMBDA x : rows[x.row].check = "checked")

\* _set_buttons_enabled
ButtonsEnabled(g, enabled, files) ==
    [g EXCEPT !.scan_action = enabled,
              !.rename_action = enabled /\ Len(files) > 0,
              !.metadata_action = enabled /\ Len(files) > 0]

\* the MediaMetadata _on_metadata_clicked builds from the inputs
ClickedMetadata(g) ==
    MediaMetadata(g.title_input, g.season_spin, g.episode_spin,
                  g.genre_combo, g.year_spin, <<>>)

\* _on_rename_clicked
OnRenameClicked ==
    /\ gui.rename_action
    /\ IF media_files = <<>>
       THEN UNCHANGED <<gui, threads, config>>
       ELSE IF SelectedFiles(gui.rows, media_files) = <<>>
       THEN /\ gui' = [gui EXCEPT !.status_bar = "No files selected"]
            /\ UNCHANGED <<threads, config>>
       ELSE IF gui.title_input = <<>>
       THEN /\ gui' = [gui EXCEPT !.status_bar = "Please enter a title"]
            /\ UNCHANGED <<threads, config>>
       ELSE /\ MayStart
            /\ WaitReturns(gui.worker)
            /\ config' = Some([config[1] EXCEPT
                                 !.episode_padding = currentData(gui.padding_combo)])
            /\ gui' = [ButtonsEnabled(gui, FALSE, media_files) EXCEPT
                         !.status_bar = "Renaming",
                         !.worker = Len(threads) + 1]
            /\ threads' = Append(threads,
                                 RenameWorker(SelectedFiles(gui.rows, media_files),
                                              gui.title_input, gui.season_spin,
                                              gui.episode_spin, gui.sequence_check))
    /\ UNCHANGED <<besideWindow, fs, media_files, scanned_files, queue>>

\* _on_metadata_clicked
OnMetadataClicked ==
    /\ gui.metadata_action
    /\ IF media_files = <<>>
       THEN UNCHANGED <<gui, threads>>
       ELSE IF SelectedFiles(gui.rows, media_files) = <<>>
       THEN /\ gui' = [gui EXCEPT !.status_bar = "No files selected"]
            /\ UNCHANGED threads
       ELSE IF gui.title_input = <<>>
       THEN /\ gui' = [gui EXCEPT !.status_bar = "Please enter a title"]
            /\ UNCHANGED threads
       ELSE /\ MayStart
            /\ WaitReturns(gui.worker)
            /\ gui' = [ButtonsEnabled(gui, FALSE, media_files) EXCEPT
                         !.status_bar = "Updating metadata",
                         !.worker = Len(threads) + 1]
            /\ threads' = Append(threads,
                                 MetadataWorker(SelectedFiles(gui.rows, media_files),
                                                ClickedMetadata(gui)))
    /\ UNCHANGED <<besideWindow, fs, media_files, scanned_files, config, queue>>


\* the file a progress signal reports on: the entry of its sender with that row
ReportedFile(signal) ==
    LET entries == SelectSeq(threads[signal.sender].files,
                             LAMBDA x : x.row = signal.row)
    IN  entries[1].file.path

\* _on_file_progress: the text of the status item of the row, if it has one
OnFileProgress ==
    /\ queue # <<>>
    /\ Head(queue).signal = "progress"
    /\ gui' = IF /\ Head(queue).row <= Len(gui.rows)
                 /\ gui.rows[Head(queue).row].status # None
              THEN [gui EXCEPT
                      !.rows[Head(queue).row].status = Some(Head(queue).status),
                      !.rows[Head(queue).row].status_of =
                          Some(ReportedFile(Head(queue)))]
              ELSE gui
    /\ queue' = Tail(queue)
    /\ UNCHANGED <<besideWindow, fs, media_files, scanned_files, config, threads>>

\* the window after the whole of _on_scan_finished
ScanShown(g, disk, files) ==
    [g EXCEPT !.worker = 0, !.scan_action = TRUE,
              !.rows = Resorted(Populated(g.rows, disk, files), g.sort_order),
              !.sorting_enabled = TRUE, !.select_all = TRUE,
              !.rename_action = Len(files) > 0,
              !.metadata_action = Len(files) > 0,
              !.status_bar = "Found media files"]

\* the window when stat() raised in the loop of _on_scan_finished: sorting is
\* still off and the statements after the loop have not run
ScanAborted(g, disk, files) ==
    [g EXCEPT !.worker = 0, !.scan_action = TRUE,
              !.rows = Populated(g.rows, disk, files),
              !.sorting_enabled = FALSE]

\* _on_scan_finished(files)
OnScanFinished ==
    /\ queue # <<>>
    /\ Head(queue).signal = "scan_finished"
    /\ WaitReturns(gui.worker)
    /\ media_files' = Head(queue).files
    /\ gui' = IF FirstMissing(fs, Head(queue).files) > Len(Head(queue).files)
              THEN ScanShown(gui, fs, Head(queue).files)
              ELSE ScanAborted(gui, fs, Head(queue).files)
    /\ queue' = Tail(queue)
    /\ UNCHANGED <<besideWindow, fs, scanned_files, config, threads>>

\* _on_rename_finished: the buttons come back and the directory is rescanned
OnRenameFinished ==
    /\ queue # <<>>
    /\ Head(queue).signal = "rename_finished"
    /\ ScanClickedOn([ButtonsEnabled(gui, TRUE, media_files) EXCEPT
                        !.status_bar = "Renaming complete"])
    /\ queue' = Tail(queue)
    /\ UNCHANGED <<besideWindow, fs, media_files, scanned_files, config>>

\* _on_metadata_finished
OnMetadataFinished ==
    /\ queue # <<>>
    /\ Head(queue).signal = "metadata_finished"
    /\ WaitReturns(gui.worker)
    /\ gui' = [ButtonsEnabled(gui, TRUE, media_files) EXCEPT
                 !.worker = 0, !.status_bar = "Metadata update complete"]
    /\ queue' = Tail(queue)
    /\ UNCHANGED <<besideWindow, fs, media_files, scanned_files, config, threads>>

\* _on_sequence_toggled, after the user ticks or clears "Sequence Series?"
OnSequenceToggled ==
    /\ gui' = [gui EXCEPT !.sequence_check = ~gui.sequence_check,
                          !.spins_enabled = ~gui.sequence_check]
    /\ UNCHANGED <<besideWindow, fs, media_files, scanned_files, config,
                   threads, queue>>

\* the user ticks or clears the check box of one row
OnRowToggled ==
    /\ \E i \in 1..Len(gui.rows) :
         /\ gui.rows[i].check # "none"
         /\ gui' = [gui EXCEPT !.rows[i].check =
                       IF @ = "checked" THEN "unchecked" ELSE "checked"]
    /\ UNCHANGED <<besideWindow, fs, media_files, scanned_files, config,
                   threads, queue>>

\* _on_select_all_changed, after the user ticks or clears "Select All"
OnSelectAllChanged ==
    /\ gui' = [gui EXCEPT
                 !.select_all = ~gui.select_all,
                 !.rows = [i \in 1..Len(gui.rows) |->
                             IF gui.rows[i].check = "none" THEN gui.rows[i]
                             ELSE [gui.rows[i] EXCEPT !.check =
                                     IF gui.select_all THEN "unchecked"
                                     ELSE "checked"]]]
    /\ UNCHANGED <<besideWindow, fs, media_files, scanned_files, config,
                   threads, queue>>

\* the user clicks the header of the Name column until it shows the order
OnHeaderClicked ==
    /\ gui.sorting_enabled
    /\ \E order \in {"asc", "desc"} :
         /\ gui.sort_order # Some(order)
         /\ gui' = [gui EXCEPT !.sort_order = Some(order),
                               !.rows = SortRows(gui.rows, order)]
    /\ UNCHANGED <<besideWindow, fs, media_files, scanned_files, config,
                   threads, queue>>

\* what the user has typed and picked before the first click: title, season,
\* first episode, padding, genre and year
GuiInputs(g, title, sequence, episode, padding) ==
    [g EXCEPT !.title_input = title, !.sequence_check = sequence,
              !.spins_enabled = sequence, !.episode_spin = episode,
              !.padding_combo = padding, !.genre_combo = GenreG,
              !.year_spin = 2002]

\* run_gui on the default configuration and a directory of media files; the
\* user has filled in the inputs
InitGui ==
    /\ \E n \in 1..MaxRows : fs = GuiDisk(n)
    /\ disk0 = fs
    /\ IdleRename
    /\ IdleScanner
    /\ IdleManager
    /\ IdleEditors
    /\ environ = None
    /\ environ_extensions = None
    /\ config = Some(from_env(None, None))
    /\ window = NoWindow
    /\ nclicks = 0
    /\ \E title \in {TitleT, TitleEmpty}, sequence \in BOOLEAN :
         gui = GuiInputs(NoGui, title, sequence, 1, 1)
    /\ threads = <<>>
    /\ queue = <<>>

WorkerStep ==
    \/ ScanWorkerRun
    \/ RenameEmitProgress
    \/ RenameCall
    \/ RenameEmitStatus
    \/ RenameEmitFinished
    \/ MetadataEmitProgress
    \/ MetadataCall
    \/ MetadataEmitStatus
    \/ MetadataEmitFinished

SlotCalled ==
    \/ OnFileProgress
    \/ OnScanFinished
    \/ OnRenameFinished
    \/ OnMetadataFinished

NextGui ==
    \/ OnBrowseClicked
    \/ DropEvent
    \/ OnScanClicked
    \/ OnRefreshClicked
    \/ OnRenameClicked
    \/ OnMetadataClicked
    \/ WorkerStep
    \/ SlotCalled

SpecGui == InitGui /\ [][NextGui]_vars

\* the first episodes the user may have entered
RerunEpisodes == {1, 99}

\* the window on a directory of media files; the user has ticked "Sequence
\* Series?", picked two digits, and entered a title and a first episode
InitRerun ==
    /\ \E n \in 1..MaxRows : fs = GuiDisk(n)
    /\ disk0 = fs
    /\ IdleRename
    /\ IdleScanner
    /\ IdleManager
    /\ IdleEditors
    /\ environ = None
    /\ environ_extensions = None
    /\ config = Some(from_env(None, None))
    /\ window = NoWindow
    /\ nclicks = 0
    /\ \E episode \in RerunEpisodes : gui = GuiInputs(NoGui, TitleT, TRUE, episode, 0)
    /\ threads = <<>>
    /\ queue = <<>>

\* the user browses to the directory, switches between series and movie mode,
\* and renames, again and again
NextRerun ==
    \/ OnBrowseClicked
    \/ OnSequenceToggled
    \/ OnRenameClicked
    \/ ScanWorkerRun
    \/ RenameEmitProgress
    \/ RenameCall
    \/ RenameEmitStatus
    \/ RenameEmitFinished
    \/ OnFileProgress
    \/ OnScanFinished
    \/ OnRenameFinished

SpecRerun == InitRerun /\ [][NextRerun]_vars

\* the window on a directory of media files, a title entered
InitTable ==
    /\ fs = GuiDisk(MaxRows)
    /\ disk0 = fs
    /\ IdleRename
    /\ IdleScanner
    /\ IdleManager
    /\ IdleEditors
    /\ environ = None
    /\ environ_extensions = None
    /\ config = Some(from_env(None, None))
    /\ window = NoWindow
    /\ nclicks = 0
    /\ gui = GuiInputs(NoGui, TitleT, FALSE, 1, 1)
    /\ threads = <<>>
    /\ queue = <<>>

\* the user browses, ticks and clears boxes, sorts by name, and runs batches
NextTable ==
    \/ OnBrowseClicked
    \/ OnRenameClicked
    \/ OnRowToggled
    \/ OnSelectAllChanged
    \/ OnHeaderClicked
    \/ ScanWorkerRun
    \/ RenameEmitProgress
    \/ RenameCall
    \/ RenameEmitStatus
    \/ RenameEmitFinished
    \/ OnFileProgress
    \/ OnScanFinished
    \/ OnRenameFinished

SpecTable == InitTable /\ [][NextTable]_vars

---------------------------------------------------------------------------
(* Properties of rename_file, stated on the most recent call (Spec) *)

\* the target path the most recent call computes from its arguments
LastTarget ==
    LET g == generate_new_name(renamer, last.file_path, last.season,
                               last.episode, last.episodic)
    IN  JoinPath(g.directory, g.new_name)

LastCollides ==
    /\ last.called
    /\ PathExists(last.before, last.file_path)
    /\ PathExists(last.before, LastTarget)
    /\ LastTarget # last.file_path

LastFailsWith(message) ==
    /\ ~last.result.success
    /\ last.result.new_path = None
    /\ last.result.error = Some(message)
    /\ fs = last.before

\* C1: when the source exists and a distinct path that exists is the computed
\* target, rename_file fails with "Target file already exists", never calls
\* os.rename, and source and target are still on disk with their contents.
C1_CollisionSafety ==
    LastCollides =>
        /\ ~last.result.success
        /\ last.result.error = Some("Target file already exists")
        /\ last.moves = 0
        /\ PathExists(fs, last.file_path)
        /\ PathExists(fs, LastTarget)
        /\ fs.files = last.before.files

\* a call whose target is another file of the directory was refused
C1_Witness ==
    /\ LastCollides
    /\ Resolve(last.before, LastTarget)[1] \in DOMAIN last.before.files
    /\ ~last.result.success

\* C2: a file already at its target path is renamed successfully onto itself
\* (new_path = original_path, file still there, no target-exists error), and
\* a second rename_file with the same parameters on the new_path of a
\* successful rename is a successful no-op.
C2_Idempotence ==
    /\ (/\ last.called
        /\ PathExists(last.before, last.file_path)
        /\ LastTarget = last.file_path)
       => /\ last.result.success
          /\ last.result.new_path = Some(last.file_path)
          /\ PathExists(fs, last.file_path)
          /\ last.result.error # Some("Target file already exists")
    /\ (last.called /\ last.result.success)
       => \A env \in OsOutcomes :
            LET again == rename_file(fs, renamer, last.result.new_path[1],
                                     last.season, last.episode, last.episodic, env)
            IN  /\ again.result.success
                /\ again.result.new_path = last.result.new_path
                /\ again.disk = fs

\* C3: after any sequence of rename_file calls the disk holds as many files
\* as at the start, and every initial content is under exactly one name.
C3_NoFileLost ==
    /\ Cardinality(DOMAIN fs.files) = Cardinality(DOMAIN disk0.files)
    /\ \A p0 \in DOMAIN disk0.files :
         Cardinality({p \in DOMAIN fs.files : fs.files[p] = disk0.files[p0]}) = 1

\* two calls in a row each moved a file
C3_Witness ==
    /\ ncalls = 2
    /\ last.result.success
    /\ fs # last.before
    /\ last.before # disk0

\* C9: a successful rename_file leaves the file in its directory
\* (new_path.parent = original_path.parent), and no call changes the set of
\* directories.
C9_SameDirectory ==
    last.called =>
        /\ fs.dirs = last.before.dirs
        /\ last.result.success =>
             PathParent(last.result.new_path[1]) = PathParent(last.file_path)

\* C10: every failure of rename_file is a result value: a missing source, an
\* occupied target, a permission error and any other OS error of the move
\* each give success = false, no new_path and the message of that cause;
\* nothing is raised, os.rename is called at most once, the disk is unchanged.
C10_FailuresAreValues ==
    last.called =>
        /\ ~last.raised
        /\ last.moves <= 1
        /\ ~PathExists(last.before, last.file_path)
             => LastFailsWith("File does not exist")
        /\ LastCollides => LastFailsWith("Target file already exists")
        /\ last.exc = "PermissionError" => LastFailsWith("Permission denied")
        /\ last.exc = "OSError" => LastFailsWith("OS error during rename")
        /\ ~last.result.success =>
             /\ last.result.new_path = None
             /\ last.result.error # None
             /\ fs = last.before

\* the operating system refused the move and the call reported it
C10_Witness ==
    /\ last.called
    /\ last.exc = "PermissionError"
    /\ last.moves = 1
    /\ ~last.result.success

---------------------------------------------------------------------------
(* Properties of the rename batch (SpecBatch) *)

Successes(k) == Cardinality({j \in 1..k : calls[j].result.success})

\* C4: the k-th call of a batch gets the start episode plus the number of
\* earlier successful calls when the batch is episodic, and the start episode
\* itself when it is not.
C4_EpisodeSequencing ==
    \A k \in 1..Len(calls) :
        calls[k].episode =
            worker.episode + (IF worker.episodic THEN Successes(k - 1) ELSE 0)

\* an episodic batch of three whose first call failed and the others succeeded
C4_Witness ==
    /\ worker.state = "finished"
    /\ worker.episodic
    /\ Len(calls) = 3
    /\ ~calls[1].result.success
    /\ calls[2].result.success
    /\ calls[3].result.success

\* an episodic batch of three from episode 5: success, failure, success
C5_Witness ==
    /\ worker.episodic
    /\ worker.episode = 5
    /\ Len(calls) = 3
    /\ calls[1].result.success
    /\ ~calls[2].result.success
    /\ calls[3].result.success

EpisodesPassed == [k \in 1..Len(calls) |-> calls[k].episode]

\* C5 as stated: in that batch the calls get the episodes 5, 5 and 6.
C5_Original == C5_Witness => EpisodesPassed = <<5, 5, 6>>

\* C5: in an episodic batch of three from episode 5 whose first and third
\* calls succeed and whose second fails, the calls get the episodes 5, 6, 6.
C5_Amended == C5_Witness => EpisodesPassed = <<5, 6, 6>>

\* C6: after the batch has processed an entry whose rename_file call returned
\* success with new path P, the path field of that MediaFile is P.
C6_PathUpdated ==
    \A k \in 1..Len(calls) :
        calls[k].result.success =>
            media_files[calls[k].mf].path = calls[k].result.new_path[1]

---------------------------------------------------------------------------
(* Properties of the naming functions (SpecName) *)

\* f is a decimal numeral, possibly with leading zeros, of the number v
IsNumeral(f, v) == (\A i \in 1..Len(f) : IsDigit(f[i])) /\ DecimalValue(f) = v

NumDigits(v) ==
    CHOOSE k \in 1..(MaxDigits + 2) : (k = 1 \/ Pow10(k - 1) <= v) /\ v < Pow10(k)

\* the width of a number padded to at least w characters and never cut
FieldWidth(v, w) == IF NumDigits(v) > w THEN NumDigits(v) ELSE w

\* C7: in episodic mode generate_new_name returns the directory of the file
\* and the name title, " S", the season in at least 2 digits, " EP", the
\* episode in at least `padding` digits, the extension of the file; a number
\* with more digits than its width is written in full.
C7_EpisodicName ==
    (nameCall.called /\ nameCall.episodic) =>
        LET n == nameCall.new_name
            a == Len(nameCall.renamer.title)
            ext == PathSuffix(nameCall.file_path)
            sw == FieldWidth(nameCall.season, 2)
            ew == FieldWidth(nameCall.episode, nameCall.renamer.episode_padding)
        IN  /\ nameCall.directory = PathParent(nameCall.file_path)
            /\ Len(n) = a + 2 + sw + 3 + ew + Len(ext)
            /\ SubSeq(n, 1, a) = nameCall.renamer.title
            /\ SubSeq(n, a + 1, a + 2) = <<" ", "S">>
            /\ IsNumeral(SubSeq(n, a + 3, a + 2 + sw), nameCall.season)
            /\ SubSeq(n, a + 3 + sw, a + 5 + sw) = <<" ", "E", "P">>
            /\ IsNumeral(SubSeq(n, a + 6 + sw, a + 5 + sw + ew), nameCall.episode)
            /\ SubSeq(n, a + 6 + sw + ew, Len(n)) = ext

\* padding 2, episode 100: the name ends in EP100 and the extension
C7_Witness ==
    /\ nameCall.called
    /\ nameCall.episodic
    /\ nameCall.renamer.episode_padding = 2
    /\ nameCall.episode = 100
    /\ nameCall.new_name =
         <<"T", " ", "S", "0", "1", " ", "E", "P", "1", "0", "0", ".", "m">>

YearText(y) ==
    CASE y = 1000 -> <<"1", "0", "0", "0">>
      [] y = 2002 -> <<"2", "0", "0", "2">>

\* C8: with episodic = false the name is "{title} ({year}){ext}" exactly when
\* the include-year flag is set, a year is given and year >= 1000, and
\* "{title}{ext}" otherwise; in episodic mode year and flag change nothing.
C8_MovieName ==
    nameCall.called =>
        LET r == nameCall.renamer
            ext == PathSuffix(nameCall.file_path)
        IN  IF nameCall.episodic
            THEN nameCall.new_name =
                   generate_new_name(
                       MediaRenamer(r.title, r.episode_padding, None, FALSE),
                       nameCall.file_path, nameCall.season, nameCall.episode,
                       TRUE).new_name
            ELSE IF r.include_year /\ r.year # None /\ r.year[1] >= 1000
            THEN nameCall.new_name =
                   r.title \o <<" ", "(">> \o YearText(r.year[1]) \o <<")">> \o ext
            ELSE nameCall.new_name = r.title \o ext

\* the boundary year 1000 is rendered
C8_Witness ==
    /\ nameCall.called
    /\ ~nameCall.episodic
    /\ nameCall.renamer.include_year
    /\ nameCall.renamer.year = Some(1000)
    /\ nameCall.new_name = <<"T", " ", "(", "1", "0", "0", "0", ")", ".", "m">>

---------------------------------------------------------------------------
(* Properties of the scanner (SpecScan) *)

IsPrefix(a, b) == Len(a) <= Len(b) /\ SubSeq(b, 1, Len(a)) = a

\* the directories and the files of the disk below (or at) directory d
DirsUnder(d) == {x \in fs.dirs : IsPrefix(d, x)}
FilesUnder(d) == {p \in DOMAIN fs.files : IsPrefix(d, p)}

HasMediaExtension(p) == Lower(PathSuffix(p)) \in media_extensions

ResultPaths == {scanCall.result[i].path : i \in 1..Len(scanCall.result)}

\* the most recent scan walked every directory of the subtree and nothing failed
ScannedWithoutError ==
    /\ scanCall.called
    /\ IsDir(fs, scanCall.directory_path)
    /\ scanCall.exc = "none"
    /\ {scanCall.tuples[i].root : i \in 1..Len(scanCall.tuples)}
         = DirsUnder(scanCall.directory_path)

\* C11: a scan of an existing directory that is traversed without error
\* returns exactly one entry per file of the subtree whose lower-cased
\* extension is in the configured set and none for any other file; an entry
\* holds the file's path, its name, empty metadata and selected = true.
C11_ScanFiltering ==
    ScannedWithoutError =>
        /\ ResultPaths =
             {p \in FilesUnder(scanCall.directory_path) : HasMediaExtension(p)}
        /\ Len(scanCall.result) = Cardinality(ResultPaths)
        /\ \A i \in 1..Len(scanCall.result) :
             scanCall.result[i] =
                 [path |-> scanCall.result[i].path,
                  original_name |-> PathName(scanCall.result[i].path),
                  metadata |-> EmptyMetadata, selected |-> TRUE]
        /\ scanned_files = scanCall.result

\* a scan of the root found the upper-case and the nested media files and
\* left out the text file
C11_Witness ==
    /\ ScannedWithoutError
    /\ scanCall.directory_path = Root
    /\ ScanCandidates[1] \in ResultPaths
    /\ ScanCandidates[2] \in ResultPaths
    /\ ScanCandidates[3] \in DOMAIN fs.files
    /\ ScanCandidates[3] \notin ResultPaths

YieldedMedia ==
    UNION {{Append(scanCall.tuples[i].root, scanCall.tuples[i].files[j]) :
              j \in 1..Len(scanCall.tuples[i].files)} :
           i \in 1..Len(scanCall.tuples)}

\* C13: scan_directory raises nothing: a path that is missing or no directory
\* gives an empty list and empties the stored list; a permission or I/O error
\* during the walk gives the entries accumulated before the error.
C13_ScanNeverRaises ==
    scanCall.called =>
        /\ ~scanCall.raised
        /\ scanned_files = scanCall.result
        /\ ~IsDir(fs, scanCall.directory_path) => scanCall.result = <<>>
        /\ scanCall.exc \in {"PermissionError", "OSError"} =>
             /\ ResultPaths = {p \in YieldedMedia : HasMediaExtension(p)}
             /\ Len(scanCall.result) = Cardinality(ResultPaths)

\* the walk failed after a media file was found and before another was reached
C13_Witness ==
    /\ scanCall.called
    /\ scanCall.exc = "PermissionError"
    /\ ~scanCall.raised
    /\ ResultPaths # {}
    /\ \E p \in FilesUnder(scanCall.directory_path) :
         HasMediaExtension(p) /\ p \notin ResultPaths

---------------------------------------------------------------------------
(* Properties of the metadata manager (SpecMeta) *)

UpdateCalled == mdCall.called /\ mdCall.op = "update"

\* C14: the record update_metadata hands to the editor has the title
\* format_episode_name(title, season, episode) under the manager's padding
\* exactly when title is non-empty, season > 0 and episode > 0, and the title
\* as given otherwise; season, episode, genre, year and collection are handed
\* over unchanged.
C14_TitleFormatting ==
    (UpdateCalled /\ mdCall.writes # <<>>) =>
        LET m == mdCall.metadata
            h == mdCall.writes[1].metadata
        IN  /\ h.season = m.season
            /\ h.episode = m.episode
            /\ h.genre = m.genre
            /\ h.year = m.year
            /\ h.collection = m.collection
            /\ IF m.title # <<>> /\ m.season > 0 /\ m.episode > 0
               THEN h.title = format_episode_name(mdCall.episode_padding, m.title,
                                                  m.season, m.episode)
               ELSE h.title = m.title

\* title T, season 1, episode 1 under padding 2 is handed over as "T S01 EP01"
C14_Witness ==
    /\ UpdateCalled
    /\ mdCall.writes # <<>>
    /\ mdCall.metadata.title = TitleT
    /\ mdCall.episode_padding = 2
    /\ mdCall.writes[1].metadata.title =
         <<"T", " ", "S", "0", "1", " ", "E", "P", "0", "1">>

Unsupported ==
    mdCall.called /\ Lower(PathSuffix(mdCall.file_path)) \notin DOMAIN mdCall.editors

\* C15: for a path whose lower-cased extension has no registered editor,
\* update_metadata returns success = false with the unsupported-file-type
\* error, read_metadata returns the empty metadata, and no editor is invoked.
C15_UnsupportedExtension ==
    Unsupported =>
        /\ mdCall.reads = <<>>
        /\ mdCall.writes = <<>>
        /\ ~mdCall.raised
        /\ mdCall.op = "update" =>
             mdCall.result = [success |-> FALSE, file_path |-> mdCall.file_path,
                              error |-> Some("Unsupported file type")]
        /\ mdCall.op = "read" => mdCall.result = EmptyMetadata

\* an update of a .txt path was refused
C15_Witness ==
    /\ Unsupported
    /\ mdCall.op = "update"
    /\ PathSuffix(mdCall.file_path) = <<".", "t", "x", "t">>
    /\ ~mdCall.result.success

\* C16: update_metadata turns every outcome of the editor's write into a
\* result: true gives success without error, false gives "Editor write
\* failed", an exception gives its message as the error; nothing is raised
\* and write is invoked at most once.
C16_EditorOutcomes ==
    UpdateCalled =>
        /\ ~mdCall.raised
        /\ Len(mdCall.writes) <= 1
        /\ mdCall.writes # <<>> =>
             /\ mdCall.env.outcome = "true" =>
                  mdCall.result = [success |-> TRUE, file_path |-> mdCall.file_path,
                                   error |-> None]
             /\ mdCall.env.outcome = "false" =>
                  mdCall.result = [success |-> FALSE, file_path |-> mdCall.file_path,
                                   error |-> Some("Editor write failed")]
             /\ mdCall.env.outcome = "exception" =>
                  mdCall.result = [success |-> FALSE, file_path |-> mdCall.file_path,
                                   error |-> Some(mdCall.env.message)]

\* the editor raised and the call reported the message
C16_Witness ==
    /\ UpdateCalled
    /\ Len(mdCall.writes) = 1
    /\ mdCall.env.outcome = "exception"
    /\ ~mdCall.raised
    /\ mdCall.result.error = Some(MessageBoom)


---------------------------------------------------------------------------
(* Properties of the MPEG-4 editor (SpecMp4) *)

\* the tag written for each field of a Metadata, and whether the field is set
FieldIsSet(metadata, key) ==
    CASE key = KeyTitle   -> metadata.title # <<>>
      [] key = KeySeason  -> metadata.season > 0
      [] key = KeyEpisode -> metadata.episode > 0
      [] key = KeyGenre   -> metadata.genre # <<>>
      [] key = KeyDate    -> metadata.year > 0
      [] OTHER            -> FALSE

\* C17: partial-write invariant.  After write(path, m) a tag of the file differs
\* from its value before the write only if it is one of the five tags and its
\* field in m is non-empty / positive; every other tag, including the tags the
\* editor does not know, keeps its value; and no tag that the file had before
\* the first write, or before the latest one, is ever absent afterwards.
C17_PartialWrite ==
    /\ mp4Write.called =>
          \A k \in TagKeys :
              /\ tags[k] # mp4Write.before[k] => FieldIsSet(mp4Write.metadata, k)
              /\ ~FieldIsSet(mp4Write.metadata, k) => tags[k] = mp4Write.before[k]
              /\ HasTag(mp4Write.before, k) => HasTag(tags, k)
    /\ \A k \in TagKeys : HasTag(tags0, k) => HasTag(tags, k)

\* a second successful write that sets the title and leaves season 0 on a file
\* that carries a season: the title changed, the season stayed
C17_Witness ==
    /\ mp4Write.called /\ mp4Write.result /\ mp4Write.n = 2
    /\ mp4Write.metadata.title # <<>> /\ mp4Write.metadata.season = 0
    /\ HasTag(mp4Write.before, KeySeason)
    /\ tags[KeySeason] = mp4Write.before[KeySeason]
    /\ tags[KeyTitle] # mp4Write.before[KeyTitle]
    /\ tags[KeyOther] = tags0[KeyOther] /\ HasTag(tags, KeyOther)

\* m has a non-empty title and genre and a positive season, episode and year
FullyPopulated(metadata) ==
    /\ metadata.title # <<>> /\ metadata.genre # <<>>
    /\ metadata.season > 0 /\ metadata.episode > 0 /\ metadata.year > 0

\* a read that opened the file, made after a successful write of a fully
\* populated Metadata with no write in between
ReadAfterFullWrite ==
    /\ mp4Write.called /\ mp4Write.result
    /\ FullyPopulated(mp4Write.metadata)
    /\ mp4Read.called /\ mp4Read.env = "ok"

\* C18 as stated: a successful write(path, m) of a fully populated m followed by
\* read(path) returns the title, season, episode, genre and year of m.
C18_RoundTrip ==
    ReadAfterFullWrite =>
        /\ mp4Read.result.title = mp4Write.metadata.title
        /\ mp4Read.result.season = mp4Write.metadata.season
        /\ mp4Read.result.episode = mp4Write.metadata.episode
        /\ mp4Read.result.genre = mp4Write.metadata.genre
        /\ mp4Read.result.year = mp4Write.metadata.year

\* C18, amended: the read returns the title, season, episode and genre of m, and
\* as year the number formed by the first four decimal digits of m.year, which
\* is m.year exactly when m.year is at most 9999.
C18_RoundTripFourDigitYear ==
    ReadAfterFullWrite =>
        /\ mp4Read.result.title = mp4Write.metadata.title
        /\ mp4Read.result.season = mp4Write.metadata.season
        /\ mp4Read.result.episode = mp4Write.metadata.episode
        /\ mp4Read.result.genre = mp4Write.metadata.genre
        /\ mp4Read.result.year =
              DecimalValue(Prefix(Digits(mp4Write.metadata.year), 4))
        /\ mp4Write.metadata.year <= 9999 =>
              mp4Read.result.year = mp4Write.metadata.year
        /\ mp4Write.metadata.year > 9999 =>
              mp4Read.result.year # mp4Write.metadata.year

\* a year of four digits written over another tool's full date and read back
C18_Witness ==
    /\ ReadAfterFullWrite
    /\ mp4Write.metadata.year = 2024
    /\ mp4Write.before = TagsFull
    /\ mp4Read.result.year = 2024
    /\ mp4Read.result.title = mp4Write.metadata.title


---------------------------------------------------------------------------
(* Properties of the Matroska editor (SpecMkv) *)

\* C19: write(path, m) with an empty title returns true and runs nothing;
\* otherwise it runs the tool exactly once, on the path, with the one assignment
\* title=<m.title>, and returns true exactly when the tool exited with code 0;
\* a missing tool, a timeout, a non-zero code and any other exception give
\* false; no call raises.  Only the title of m and the tool's outcome appear in
\* this: season, episode, genre and year do not influence command or result.
C19_MkvWriteOutcome ==
    mkvCall.called =>
        /\ ~mkvCall.raised
        /\ mkvCall.metadata.title = <<>> =>
              mkvCall.runs = <<>> /\ mkvCall.result
        /\ mkvCall.metadata.title # <<>> =>
              /\ Len(mkvCall.runs) = 1
              /\ mkvCall.runs[1] =
                    <<Mkvpropedit, mkvCall.file_path, "--edit", "info", "--set",
                      <<"t", "i", "t", "l", "e", "=">> \o mkvCall.metadata.title>>
              /\ mkvCall.result <=>
                    (mkvCall.env.kind = "exit" /\ mkvCall.env.returncode = 0)

\* a titled write with season, episode, genre and year set whose tool run raised
\* an exception that is neither of the two named ones
C19_Witness ==
    /\ mkvCall.called
    /\ mkvCall.metadata.title # <<>>
    /\ mkvCall.metadata.season > 0 /\ mkvCall.metadata.episode > 0
    /\ mkvCall.metadata.genre # <<>> /\ mkvCall.metadata.year > 0
    /\ mkvCall.env.kind = "raise" /\ mkvCall.env.exc = "PermissionError"
    /\ Len(mkvCall.runs) = 1
    /\ ~mkvCall.result /\ ~mkvCall.raised


---------------------------------------------------------------------------
(* Properties of the episode padding (SpecConfig) *)

\* environment values that denote the number 2
DenotesTwo == {Some(<<"2">>), Some(<<"0", "2">>), Some(<<" ", "2", " ">>)}

\* C20: the episode padding of the loaded configuration is always 2 or 3.  As
\* from_env leaves it, it is 2 when the environment variable denotes 2 and 3 for
\* every other value (unset, empty, 3, another number, not a number); and every
\* rename action that overrides it from the padding selector leaves it, and the
\* padding of the renamer it builds, in {2, 3}.
C20_PaddingTwoOrThree ==
    /\ config # None => config[1].episode_padding \in {2, 3}
    /\ config # None /\ nclicks = 0 =>
          config[1].episode_padding = (IF environ \in DenotesTwo THEN 2 ELSE 3)
    /\ nclicks > 0 => renamer.episode_padding = config[1].episode_padding

\* from_env kept the default 3 for the value "5"; sequencing was ticked, the
\* selector moved to 2 digits, and the last of the rename actions stored 2
C20_Witness ==
    /\ environ = Some(<<"5">>)
    /\ config # None /\ config[1].episode_padding = 2
    /\ nclicks = MaxClicks
    /\ window.status = "Renaming" /\ window.padding_combo = 0
    /\ renamer.episode_padding = 2


---------------------------------------------------------------------------
(* Properties of the configured extensions (SpecExt) *)

\* an extension entry, stripped and dot-prefixed, in lower case
DotPrefixedLower(ext) == Lower(DotPrefixed(ext))

\* the entries listed in the extensions variable, as the user meant them:
\* stripped, with a leading dot, whatever their letter case
ListedExtensions ==
    IF environ_extensions = None \/ environ_extensions[1] = <<>> THEN {}
    ELSE {DotPrefixedLower(SplitCommas(environ_extensions[1])[i]) :
             i \in 1..Len(SplitCommas(environ_extensions[1]))}

\* C21: in every configuration from_env produces, every member of
\* media_extensions is in lower case and begins with a dot, and a scan that
\* completes without error includes every file of the scanned tree whose
\* extension is, up to letter case, one of those listed in the variable.
C21_ExtensionsNormalized ==
    config # None =>
        /\ \A e \in config[1].media_extensions :
              e # <<>> /\ e[1] = "." /\ Lower(e) = e
        /\ ScannedWithoutError =>
              \A p \in FilesUnder(scanCall.directory_path) :
                 Lower(PathSuffix(p)) \in ListedExtensions => p \in ResultPaths


---------------------------------------------------------------------------
(* Tag title and filename (SpecMeta) *)

\* the new_name generate_new_name returns in episodic mode for the arguments of
\* the most recent update_metadata call, under a renamer of the same title and
\* padding with the given year settings
EpisodicNewName(year, include_year) ==
    generate_new_name(
        MediaRenamer(mdCall.metadata.title, mdCall.episode_padding, year,
                     include_year),
        mdCall.file_path, mdCall.metadata.season, mdCall.metadata.episode,
        TRUE).new_name

\* s without its last k characters
WithoutLast(s, k) == SubSeq(s, 1, Len(s) - k)

\* C22: for a non-empty title, season > 0 and episode > 0, the title that
\* update_metadata hands to the editor equals the filename generate_new_name
\* produces in episodic mode for the same title, season, episode and padding,
\* with the file's extension removed from its end, whatever the renamer's year
\* settings are.
C22_SameConvention ==
    (/\ UpdateCalled /\ mdCall.writes # <<>>
     /\ mdCall.metadata.title # <<>>
     /\ mdCall.metadata.season > 0 /\ mdCall.metadata.episode > 0) =>
        \A year \in {None, Some(2002)}, include_year \in BOOLEAN :
            /\ WithoutLast(EpisodicNewName(year, include_year),
                           Len(PathSuffix(mdCall.file_path)))
                  = mdCall.writes[1].metadata.title
            /\ EpisodicNewName(year, include_year)
                  = mdCall.writes[1].metadata.title
                       \o PathSuffix(mdCall.file_path)

\* under padding 2, a title holding a slash, season 1 and an episode of three
\* digits handed to the editor of an .mp4 file
C22_Witness ==
    /\ UpdateCalled /\ mdCall.writes # <<>>
    /\ mdCall.episode_padding = 2
    /\ mdCall.metadata.title = TitleSub
    /\ mdCall.metadata.season = 1
    /\ mdCall.metadata.episode = Pow10(MaxDigits - 1)
    /\ PathSuffix(mdCall.file_path) = ExtMp4
    /\ mdCall.writes[1].metadata.title # mdCall.metadata.title


---------------------------------------------------------------------------
(* Properties of a batch that meets a taken episode name (SpecStall) *)

\* the path the k-th call of the batch computed as its target
TargetOfCall(k) ==
    LET g == generate_new_name(worker.renamer, calls[k].path, calls[k].season,
                               calls[k].episode, calls[k].episodic)
    IN  JoinPath(g.directory, g.new_name)

FailedTargetExists(k) ==
    /\ ~calls[k].result.success
    /\ calls[k].result.error = Some("Target file already exists")

\* the paths of the files handed to the worker
BatchPaths == {media_files[worker.files[j].mf].path : j \in 1..Len(worker.files)}

\* C29: in an episodic batch, once a call fails because its target exists and
\* the file at the target is not one of the batch, every later call gets the
\* same episode number and fails because its target exists, and the counter
\* of the worker stays at that number.
C29_EpisodeStalls ==
    \A k \in 1..Len(calls) :
        (worker.episodic /\ FailedTargetExists(k) /\ TargetOfCall(k) \notin BatchPaths)
            => /\ \A j \in (k + 1)..Len(calls) :
                    /\ calls[j].episode = calls[k].episode
                    /\ FailedTargetExists(j)
               /\ worker.current_episode = calls[k].episode

\* a finished episodic batch of three: the first call renamed its file, the
\* second met the taken name of a file outside the batch, the third followed
C29_Witness ==
    /\ worker.state = "finished"
    /\ worker.episodic
    /\ Len(calls) = 3
    /\ calls[1].result.success
    /\ FailedTargetExists(2)
    /\ TargetOfCall(2) \notin BatchPaths
    /\ FailedTargetExists(3)


---------------------------------------------------------------------------
(* Properties of the window and its workers (SpecGui) *)

\* the rename and metadata workers started so far
BatchThreads ==
    {t \in 1..Len(threads) : threads[t].kind \in {"rename", "metadata"}}

InProgressStatus(kind) == IF kind = "rename" THEN "Processing..." ELSE "Updating..."

\* "Renamed" / "Updated" after a success, "Failed: <error>" after a failure
TerminalStatus(kind, result) ==
    IF result.success THEN (IF kind = "rename" THEN "Renamed" ELSE "Updated")
    ELSE "Failed: " \o result.error[1]

\* what the p-th thing a batch worker does has to be: for the k-th file of its
\* list the in-progress status of its row, then one call on its path, then the
\* terminal status of that call for its row; after the last file, finished
StepInOrder(t, p) ==
    LET L == threads[t].log
        F == threads[t].files
        k == ((p - 1) \div 3) + 1
        r == (p - 1) % 3
    IN  IF p = 3 * Len(F) + 1 THEN L[p].ev = "finished"
        ELSE IF r = 0
        THEN /\ L[p].ev = "progress"
             /\ L[p].row = F[k].row
             /\ L[p].status = InProgressStatus(threads[t].kind)
        ELSE IF r = 1
        THEN /\ L[p].ev = "call"
             /\ L[p].path = F[k].file.path
        ELSE /\ L[p].ev = "progress"
             /\ L[p].row = F[k].row
             /\ L[p].status = TerminalStatus(threads[t].kind, L[p - 1].result)

\* C23: a rename or metadata batch handles its files one after the other in
\* list order, a failure included: for each file the in-progress status, one
\* call, one terminal status, and only then the next file; finished is emitted
\* once, after the terminal status of the last file, and ends the thread.
C23_SequentialBatch ==
    \A t \in BatchThreads :
        /\ Len(threads[t].log) <= 3 * Len(threads[t].files) + 1
        /\ \A p \in 1..Len(threads[t].log) : StepInOrder(t, p)
        /\ (threads[t].state = "finished")
              <=> (Len(threads[t].log) = 3 * Len(threads[t].files) + 1)

\* a finished rename batch of two files whose first call failed and whose
\* second call succeeded
C23_Witness ==
    \E t \in BatchThreads :
        /\ threads[t].kind = "rename"
        /\ threads[t].state = "finished"
        /\ Len(threads[t].files) = 2
        /\ ~threads[t].log[2].result.success
        /\ threads[t].log[5].result.success


MetadataThreads == {t \in 1..Len(threads) : threads[t].kind = "metadata"}

RenameThreads == {t \in 1..Len(threads) : threads[t].kind = "rename"}

\* the calls a worker has made so far, in order
CallsOf(t) == SelectSeq(threads[t].log, LAMBDA e : e.ev = "call")

\* C24: the Metadata handed to a metadata batch has season 0 and episode 0
\* when "Sequence Series?" is unchecked, and the values of the two spin boxes
\* when it is checked.  (In SpecGui the box keeps the state it had when the
\* inputs were filled in.)
C24_MovieModeMetadata ==
    \A t \in MetadataThreads :
        IF gui.sequence_check
        THEN /\ threads[t].base_metadata.season = gui.season_spin
             /\ threads[t].base_metadata.episode = gui.episode_spin
        ELSE /\ threads[t].base_metadata.season = 0
             /\ threads[t].base_metadata.episode = 0

\* C25: the i-th file of a metadata batch, counted from 0, is written with the
\* base episode plus i and with the title, season, genre and year of the base
\* Metadata, whatever the earlier calls returned.
C25_EpisodePerFile ==
    \A t \in MetadataThreads :
        \A k \in 1..Len(CallsOf(t)) :
            /\ CallsOf(t)[k].path = threads[t].files[k].file.path
            /\ CallsOf(t)[k].metadata.episode =
                   threads[t].base_metadata.episode + (k - 1)
            /\ CallsOf(t)[k].metadata.title = threads[t].base_metadata.title
            /\ CallsOf(t)[k].metadata.season = threads[t].base_metadata.season
            /\ CallsOf(t)[k].metadata.genre = threads[t].base_metadata.genre
            /\ CallsOf(t)[k].metadata.year = threads[t].base_metadata.year

\* a metadata batch whose first call failed and which has made its second call
C25_Witness ==
    \E t \in MetadataThreads :
        /\ Len(CallsOf(t)) = 2
        /\ ~CallsOf(t)[1].result.success
        /\ CallsOf(t)[2].metadata.episode = threads[t].base_metadata.episode + 1

\* C26: at no time are two worker threads of the window running, whatever the
\* user does (browse, drop, scan, refresh, rename, metadata) and whenever the
\* workers complete.
C26_OneWorkerAtATime ==
    Cardinality({t \in 1..Len(threads) : Running(t)}) <= 1

\* a batch worker is running that was started while the finished signal of
\* the worker before it was still waiting to be handled
C26_Witness ==
    \E t \in BatchThreads :
        /\ Running(t)
        /\ gui.worker = t
        /\ \E i \in 1..Len(queue) :
             /\ queue[i].sender = t - 1
             /\ queue[i].signal \in {"scan_finished", "rename_finished",
                                     "metadata_finished"}

\* C27: once a rename batch has renamed a file, no update_metadata call of a
\* metadata batch started after that rename batch is made with the path the
\* file had before the rename.
C27_PostRenamePath ==
    \A r \in RenameThreads, m \in MetadataThreads :
        r < m =>
            \A i \in 1..Len(CallsOf(r)), j \in 1..Len(CallsOf(m)) :
                (/\ CallsOf(r)[i].result.success
                 /\ CallsOf(r)[i].result.new_path[1] # CallsOf(r)[i].path)
                    => CallsOf(m)[j].path # CallsOf(r)[i].path


---------------------------------------------------------------------------
(* Properties of a repeated rename batch (SpecRerun) *)

AllSucceeded(t) ==
    \A k \in 1..Len(CallsOf(t)) : CallsOf(t)[k].result.success

\* r2 is a finished episodic batch over the rescanned files that the finished
\* episodic batch r1 left behind, every rename of r1 having succeeded; title,
\* season, first episode and padding are the same for both
RunAgain(r1, r2) ==
    /\ r1 < r2
    /\ threads[r1].state = "finished" /\ threads[r2].state = "finished"
    /\ threads[r1].episodic /\ threads[r2].episodic
    /\ threads[r1].title = threads[r2].title
    /\ threads[r1].season = threads[r2].season
    /\ threads[r1].episode = threads[r2].episode
    /\ AllSucceeded(r1)
    /\ {threads[r2].files[k].file.path : k \in 1..Len(threads[r2].files)}
           = {CallsOf(r1)[k].result.new_path[1] : k \in 1..Len(CallsOf(r1))}

\* C28: running an episodic rename batch again on the rescanned result of a
\* fully successful one, with the same inputs, succeeds for every file and
\* leaves every file where it is.
C28_RerunIsNoOp ==
    \A r1 \in RenameThreads, r2 \in RenameThreads :
        RunAgain(r1, r2) =>
            \A k \in 1..Len(CallsOf(r2)) :
                /\ CallsOf(r2)[k].result.success
                /\ CallsOf(r2)[k].result.new_path[1] = CallsOf(r2)[k].path


---------------------------------------------------------------------------
(* Properties of the file table (SpecTable) *)

\* every file handed to a batch was the file its row showed when the batch
\* was started; the files of unchecked rows are not handed over
ProcessedIsShown ==
    \A t \in BatchThreads :
        \A k \in 1..Len(threads[t].files) :
            threads[t].files[k].shown = Some(threads[t].files[k].file.path)

\* the status text of every row was reported for the file the row shows
StatusInOwnRow ==
    \A i \in 1..Len(gui.rows) :
        gui.rows[i].status # None => gui.rows[i].status_of = gui.rows[i].shown

\* C30: under scans, ticking and clearing of boxes and sorting by the user,
\* the file processed for a checked row is the file that row shows, files of
\* unchecked rows are not processed, and a status update appears in the row
\* of the file it is about.
C30_RowCorrespondence == ProcessedIsShown /\ StatusInOwnRow

===========================================================================
